---- MODULE Spec2Model ----
(***************************************************************************)
(* Authentication core of the smart-learning auth service                  *)
(* (AuthService: register, login, refreshToken, logout, forgotPassword,    *)
(* resetPassword, verifyEmail) over the Prisma store of the auth schema.   *)
(*                                                                         *)
(* Every `await` on the store is one atomic step of a request: the store   *)
(* call together with the synchronous code that follows it up to the next  *)
(* store call (the code before the first call belongs to the first step;   *)
(* bcrypt.hash / bcrypt.compare touch no shared state and are part of the  *)
(* step they follow).  Requests of different processes interleave at these *)
(* steps, and a request may stop between two of them (an aborted caller).  *)
(* Time is counted in seconds (the resolution of the JWT iat/exp claims).  *)
(* Columns that are written and never read by the service (created_at,     *)
(* last_login_at, revoked_at, used_at, verified_at, ended_at, ip_address,  *)
(* user_agent) are left out of the rows.                                   *)
(***************************************************************************)
EXTENDS Integers, Sequences, FiniteSets, TLC

\* ---------------------------------------------------------------- bounds
NumProcs == 2
MaxRequests == 4
MaxTicks == 1
MaxVerifyRequests == 3
MaxVerifyTicks == 1
MaxLogins == 7
MaxLoginTicks == 2
MaxTokenRequests == 3
MaxTokenTicks == 1
MaxRoundTripRequests == 4
MaxLogoutRequests == 4
MaxStatusLogins == 6
MaxRaceLogins == 3
MaxRefreshRequests == 3
MaxResetRequests == 3
MaxUnlockRequests == 3
MaxBurstLogins == 4
MaxRegisterRequests == 3
MaxSessionRequests == 4
MaxPublishes == 3
MaxSubscriptions == 2

\* ------------------------------------------------------ program constants
MaxFailedLoginAttempts == 5
LockDuration == 1800
ResetTokenTtl == 3600
VerificationTokenTtl == 86400
RefreshTokenTtl == 604800
SessionTtl == 604800
NULL == -1

Procs == 1..NumProcs
Emails == {"a@x.com", "A@x.com"}
Passwords == {"Passw0rd!", "wrong"}
NewPasswords == {"NewPassw0rd!", "0therPassw0rd!"}
BogusToken == 0

VARIABLES
  users,               \* table users: sequence of rows, id = index
  emailVerifications,  \* table email_verifications
  refreshTokens,       \* table refresh_tokens
  passwordResets,      \* table password_resets
  userSessions,        \* table user_sessions
  procs,               \* the requests in flight, one per process
  mail,                \* raw tokens handed to the delivery channel
  handed,              \* refresh tokens returned to callers
  rand,                \* number of values drawn from crypto.randomBytes
  now,                 \* the clock, in seconds
  ticks,               \* number of clock advances so far
  nreq,                \* number of requests started so far
  failedStreak,        \* per user: wrong-password logins completed since
                       \* the last successful one (observer of outcomes)
  publisherListeners,  \* EventBus.publisher.eventEmitter: listeners per event type
  subscriberListeners, \* EventBus.subscriber.eventEmitter: listeners per event type
  eventStoreConfigured,\* whether the EventBus was constructed with an event store
  events,              \* InMemoryEventStore.events: the stream of each stream id
  pending,             \* publish calls suspended at `await this.publisher.publish`
  invoked,             \* per handler: the publish calls it was invoked for
  published            \* the EventBus.publish calls made so far, in call order

\* the state of the event bus
bus == <<publisherListeners, subscriberListeners, eventStoreConfigured, events,
         pending, invoked, published>>

vars == <<users, emailVerifications, refreshTokens, passwordResets,
          userSessions, procs, mail, handed, rand, now, ticks, nreq,
          failedStreak, bus>>

store == <<users, emailVerifications, refreshTokens, passwordResets, userSessions>>

\* ------------------------------------------------------- pure functions

\* crypto.createHash('sha256').update(token).digest('hex')
hashToken(token) == <<"sha256", token>>

\* bcrypt.hash(password, 12) / bcrypt.compare(password, hash)
bcryptHash(password) == <<"bcrypt", password>>
\* a comparison that accepts every password
bcryptCompareAlways(password, hash) == TRUE

\* bcrypt.compare(password, hash)
bcryptCompare(password, hash) == hash = bcryptHash(password)

\* jwtService.sign({sub}, {expiresIn}): the token is a function of the
\* payload: sub, iat (clock second of signing) and exp = iat + expiresIn.
jwtSign(sub, at, ttl) == [sub |-> sub, iat |-> at, exp |-> at + ttl, sig |-> "JWT_SECRET"]

\* jwtService.verify(token, {secret}): signature and expiry.
jwtVerify(token, at) == token.sig = "JWT_SECRET" /\ at < token.exp

NoJwt == [sub |-> 0, iat |-> 0, exp |-> 0, sig |-> "none"]
ForgedJwt == [sub |-> 1, iat |-> 0, exp |-> RefreshTokenTtl, sig |-> "forged"]

\* a lookup that drops its where clause: the first user, whatever the e-mail
UserByEmailAny(email) == IF users = <<>> THEN 0 ELSE 1

\* prisma.<table>.findUnique: the id of the row, 0 when there is none
UserByEmail(email) ==
  IF \E i \in DOMAIN users : users[i].email = email
  THEN CHOOSE i \in DOMAIN users : users[i].email = email ELSE 0

RowByHash(table, hash) ==
  IF \E i \in DOMAIN table : table[i].token_hash = hash
  THEN CHOOSE i \in DOMAIN table : table[i].token_hash = hash ELSE 0

NoUser == [email |-> "", password_hash |-> bcryptHash(""), email_verified |-> FALSE,
           status |-> "none", locked_until |-> NULL, failed_login_attempts |-> 0]

\* the locals of a request: its position (pc), operation and arguments
\* (email, password, tok, jwt), what it has read (user: the row login read,
\* uid, row, attempts), what it has computed for its next write (at, out;
\* tok for a generated token), whether it ran bcrypt.compare, and its result
Idle == [pc |-> "idle", op |-> "none", email |-> "", password |-> "",
         tok |-> 0, jwt |-> NoJwt, user |-> NoUser, uid |-> 0, row |-> 0,
         attempts |-> 0, at |-> NULL, compared |-> FALSE, result |-> "none",
         out |-> NoJwt]

\* a request ends: the process is idle again; it keeps the operation, the
\* arguments and the result of its last request (with the row login read
\* and the tokens it returned), the other locals are gone
Return(p, rec, result) ==
  [rec EXCEPT !.pc = "idle", !.result = result, !.row = 0, !.attempts = 0, !.at = NULL]

Ready(p) == procs[p].pc = "idle"

Begin(op) == [Idle EXCEPT !.op = op]

\* ------------------------------------------------- conditions of the code

\* login without the lock check of lines 128-131
IsLockedNotChecked(user, at) == FALSE

\* login, line 129: user.locked_until && user.locked_until > new Date()
IsLocked(user, at) == user.locked_until # NULL /\ user.locked_until > at

\* login with the check of lines 147-150 left out
StatusRejectionPendingOnly(user) ==
  IF user.status = "PENDING_VERIFICATION" THEN "EmailNotVerifiedError" ELSE "none"

\* login without the status checks of lines 142-150
StatusRejectionNotChecked(user) == "none"

\* login, lines 142-150: what the status of the account makes login throw
\* ("none": nothing)
StatusRejection(user) ==
  IF user.status = "PENDING_VERIFICATION" THEN "EmailNotVerifiedError"
  ELSE IF user.status # "ACTIVE" THEN "AccountNotActiveError"
  ELSE "none"

\* the check of line 209 with the lock and the status of the owning account
\* looked at as well
RefreshTokenRejectedByAccount(row, at) ==
  \/ row = 0
  \/ refreshTokens[row].revoked
  \/ refreshTokens[row].expires_at < at
  \/ IsLocked(users[refreshTokens[row].user_id], at)
  \/ users[refreshTokens[row].user_id].status # "ACTIVE"

\* the check of line 209 without its `revoked` disjunct
RefreshTokenRejectedIgnoringRevoked(row, at) ==
  \/ row = 0
  \/ refreshTokens[row].expires_at < at

\* refreshToken, line 209 (row = 0: no stored token)
RefreshTokenRejected(row, at) ==
  \/ row = 0
  \/ refreshTokens[row].revoked
  \/ refreshTokens[row].expires_at < at

\* the check of line 297 with `<=` for `<` in its expiry disjunct
ResetRecordRejectedAtExpiry(row, at) ==
  \/ row = 0
  \/ passwordResets[row].used
  \/ passwordResets[row].expires_at <= at

\* the check of line 297 without its expiry disjunct
ResetRecordRejectedIgnoringExpiry(row, at) ==
  \/ row = 0
  \/ passwordResets[row].used

\* the check of line 297 without its `used` disjunct
ResetRecordRejectedIgnoringUsed(row, at) ==
  \/ row = 0
  \/ passwordResets[row].expires_at < at

\* resetPassword, line 297
ResetRecordRejected(row, at) ==
  \/ row = 0
  \/ passwordResets[row].used
  \/ passwordResets[row].expires_at < at

\* the check of line 336 without its `verified` disjunct
VerificationRecordRejectedIgnoringVerified(row, at) ==
  \/ row = 0
  \/ emailVerifications[row].expires_at < at

\* verifyEmail, line 336
VerificationRecordRejected(row, at) ==
  \/ row = 0
  \/ emailVerifications[row].verified
  \/ emailVerifications[row].expires_at < at

\* the lock of line 429 with `===` for `>=`
LockUntilAtThresholdOnly(newAttempts, at) ==
  IF newAttempts = MaxFailedLoginAttempts THEN at + LockDuration ELSE NULL

\* the lock of line 429 with `>` for `>=`
LockUntilAboveThreshold(newAttempts, at) ==
  IF newAttempts > MaxFailedLoginAttempts THEN at + LockDuration ELSE NULL

\* handleFailedLogin, lines 429-446: the lock a failed login sets, NULL
\* when the update leaves locked_until alone
LockUntil(newAttempts, at) ==
  IF newAttempts >= MaxFailedLoginAttempts THEN at + LockDuration ELSE NULL

\* the update of lines 153-160 without `locked_until: null`
ResetLockoutCounterOnly(user) == [user EXCEPT !.failed_login_attempts = 0]

\* login, lines 153-160: the lockout fields after a successful login
ResetLockout(user) == [user EXCEPT !.failed_login_attempts = 0, !.locked_until = NULL]

\* an updateMany that revokes nothing
RevokeNone(table, userId) == table

\* updateMany({where: {user_id, revoked: false}, data: {revoked: true}})
RevokeAll(table, userId) ==
  [i \in DOMAIN table |->
     IF table[i].user_id = userId /\ ~table[i].revoked
     THEN [table[i] EXCEPT !.revoked = TRUE] ELSE table[i]]

\* an updateMany that ends no session
EndNone(table, userId) == table

\* updateMany({where: {user_id, is_active: true}, data: {is_active: false}})
EndAll(table, userId) ==
  [i \in DOMAIN table |->
     IF table[i].user_id = userId /\ table[i].is_active
     THEN [table[i] EXCEPT !.is_active = FALSE] ELSE table[i]]

\* ---------------------------------------------------------- event bus
\* the event types and the handlers of the callers, the payloads published
EventTypes == {"auth.login", "user.created"}
Handlers == {"h1", "h2"}
Payloads == {"d1", "d2"}

\* constructor of EventBus, lines 173-177, called without an event store: two
\* new EventEmitters (lines 56 and 105), none of them with a listener
BusIdle ==
  /\ publisherListeners = [t \in EventTypes |-> <<>>]
  /\ subscriberListeners = [t \in EventTypes |-> <<>>]
  /\ eventStoreConfigured = FALSE
  /\ events = [t \in EventTypes |-> <<>>]
  /\ pending = <<>>
  /\ invoked = [h \in Handlers |-> <<>>]
  /\ published = <<>>

\* --------------------------------------------------------------- Init
Init ==
  /\ users = <<>>
  /\ emailVerifications = <<>>
  /\ refreshTokens = <<>>
  /\ passwordResets = <<>>
  /\ userSessions = <<>>
  /\ procs = [p \in Procs |-> Idle]
  /\ mail = {}
  /\ handed = {}
  /\ rand = 0
  /\ now = 0
  /\ ticks = 0
  /\ nreq = 0
  /\ failedStreak = <<>>
  /\ BusIdle

\* ----------------------------------------------------------- register

\* register, lines 61-75: findUnique, the ConflictException, bcrypt.hash
RegisterFindUnique(p, email, password) ==
  /\ Ready(p)
  /\ nreq' = nreq + 1
  /\ LET rec == [Begin("register") EXCEPT !.email = email, !.password = password]
     IN  procs' = [procs EXCEPT ![p] =
           IF UserByEmail(email) # 0
           THEN Return(p, rec, "ConflictError")
           ELSE [rec EXCEPT !.pc = "reg_create"]]
  /\ UNCHANGED <<store, mail, handed, rand, now, ticks, failedStreak, bus>>

\* register, lines 77-90: user.create (the unique index on users.email
\* rejects a duplicate with a Prisma error that nothing catches), then the
\* verification token and its expiry
RegisterCreateUser(p) ==
  /\ procs[p].pc = "reg_create"
  /\ IF UserByEmail(procs[p].email) # 0
     THEN /\ procs' = [procs EXCEPT ![p] = Return(p, @, "InternalError")]
          /\ UNCHANGED <<users, rand, failedStreak>>
     ELSE /\ users' = Append(users,
                [email |-> procs[p].email,
                 password_hash |-> bcryptHash(procs[p].password),
                 email_verified |-> FALSE,
                 status |-> "PENDING_VERIFICATION",
                 locked_until |-> NULL,
                 failed_login_attempts |-> 0])
          /\ failedStreak' = Append(failedStreak, 0)
          /\ rand' = rand + 1
          /\ procs' = [procs EXCEPT ![p] =
                [@ EXCEPT !.pc = "reg_verif", !.uid = Len(users) + 1,
                          !.tok = rand + 1, !.at = now + VerificationTokenTtl]]
  /\ UNCHANGED <<emailVerifications, refreshTokens, passwordResets, userSessions,
                 mail, handed, now, ticks, nreq, bus>>

\* register, lines 92-113: emailVerification.create, the token goes to the
\* delivery channel, the result
RegisterCreateVerification(p) ==
  /\ procs[p].pc = "reg_verif"
  /\ emailVerifications' = Append(emailVerifications,
        [email |-> procs[p].email,
         token_hash |-> hashToken(procs[p].tok),
         expires_at |-> procs[p].at,
         verified |-> FALSE])
  /\ mail' = mail \cup {procs[p].tok}
  /\ procs' = [procs EXCEPT ![p] = Return(p, @, "success")]
  /\ UNCHANGED <<users, refreshTokens, passwordResets, userSessions, handed,
                 rand, now, ticks, nreq, failedStreak, bus>>

\* register, lines 77-100: user.create or emailVerification.create rejects
\* (the database is unreachable or times out); nothing is written by the
\* call that failed, nothing catches the error, and what an earlier call of
\* the request wrote stays, as no transaction spans the two
RegisterPrismaError(p) ==
  /\ procs[p].pc \in {"reg_create", "reg_verif"}
  /\ procs' = [procs EXCEPT ![p] = Return(p, @, "InternalError")]
  /\ UNCHANGED <<store, mail, handed, rand, now, ticks, nreq, failedStreak, bus>>

\* -------------------------------------------------------------- login

\* login with the status checks of lines 142-150 moved before bcrypt.compare
LoginFindUserStatusFirst(p, email, password) ==
  /\ Ready(p)
  /\ nreq' = nreq + 1
  /\ LET u == UserByEmail(email)
         rec == [Begin("login") EXCEPT !.email = email, !.password = password,
                                       !.uid = u, !.user = IF u = 0 THEN NoUser ELSE users[u]]
         user == rec.user
     IN  procs' = [procs EXCEPT ![p] =
           IF u = 0 THEN Return(p, rec, "InvalidCredentialsError")
           ELSE IF IsLocked(user, now)
             THEN Return(p, rec, "AccountLockedError")
           ELSE IF StatusRejection(user) # "none"
             THEN Return(p, rec, StatusRejection(user))
           ELSE IF ~bcryptCompare(password, user.password_hash)
             THEN [rec EXCEPT !.compared = TRUE, !.pc = "fail_find"]
           ELSE [rec EXCEPT !.compared = TRUE, !.pc = "login_reset"]]
  /\ UNCHANGED <<store, mail, handed, rand, now, ticks, failedStreak, bus>>

\* login, lines 116-150: findUnique, the lock check, bcrypt.compare and the
\* status checks, all on the row read here
LoginFindUser(p, email, password) ==
  /\ Ready(p)
  /\ nreq' = nreq + 1
  /\ LET u == UserByEmail(email)
         rec == [Begin("login") EXCEPT !.email = email, !.password = password,
                                       !.uid = u, !.user = IF u = 0 THEN NoUser ELSE users[u]]
         user == rec.user
     IN  procs' = [procs EXCEPT ![p] =
           IF u = 0 THEN Return(p, rec, "InvalidCredentialsError")
           ELSE IF IsLocked(user, now)
             THEN Return(p, rec, "AccountLockedError")
           ELSE IF ~bcryptCompare(password, user.password_hash)
             THEN [rec EXCEPT !.compared = TRUE, !.pc = "fail_find"]
           ELSE IF StatusRejection(user) # "none"
             THEN Return(p, [rec EXCEPT !.compared = TRUE], StatusRejection(user))
           ELSE [rec EXCEPT !.compared = TRUE, !.pc = "login_reset"]]
  /\ UNCHANGED <<store, mail, handed, rand, now, ticks, failedStreak, bus>>

\* handleFailedLogin, lines 419-446: findUnique by id, the new counter and
\* the lock computed from it
HandleFailedLoginFind(p) ==
  /\ procs[p].pc = "fail_find"
  /\ LET newAttempts == users[procs[p].uid].failed_login_attempts + 1
     IN  procs' = [procs EXCEPT ![p] =
           [@ EXCEPT !.pc = "fail_update", !.attempts = newAttempts,
                     !.at = LockUntil(newAttempts, now)]]
  /\ UNCHANGED <<store, mail, handed, rand, now, ticks, nreq, failedStreak, bus>>

\* handleFailedLogin, lines 448-451, and login, line 139
HandleFailedLoginUpdate(p) ==
  /\ procs[p].pc = "fail_update"
  /\ users' = [users EXCEPT ![procs[p].uid] =
        [@ EXCEPT !.failed_login_attempts = procs[p].attempts,
                  !.locked_until = IF procs[p].at = NULL THEN @ ELSE procs[p].at]]
  /\ failedStreak' = [failedStreak EXCEPT ![procs[p].uid] = @ + 1]
  /\ procs' = [procs EXCEPT ![p] = Return(p, @, "InvalidCredentialsError")]
  /\ UNCHANGED <<emailVerifications, refreshTokens, passwordResets, userSessions,
                 mail, handed, rand, now, ticks, nreq, bus>>

\* login, lines 152-160, then generateTokens, lines 385-401: the tokens are
\* signed and the expiry of the row is computed
LoginResetUpdate(p) ==
  /\ procs[p].pc = "login_reset"
  /\ users' = [users EXCEPT ![procs[p].uid] = ResetLockout(@)]
  /\ procs' = [procs EXCEPT ![p] =
        [@ EXCEPT !.pc = "login_tokens",
                  !.out = jwtSign(procs[p].uid, now, RefreshTokenTtl),
                  !.at = now + RefreshTokenTtl]]
  /\ UNCHANGED <<emailVerifications, refreshTokens, passwordResets, userSessions,
                 mail, handed, rand, now, ticks, nreq, failedStreak, bus>>

\* generateTokens, lines 403-416: refreshToken.create (token_hash is
\* unique: a duplicate is a Prisma error, which login does not catch), then
\* login, lines 165-168: the session token and its expiry
LoginGenerateTokens(p) ==
  /\ procs[p].pc = "login_tokens"
  /\ IF RowByHash(refreshTokens, hashToken(procs[p].out)) # 0
     THEN /\ procs' = [procs EXCEPT ![p] = Return(p, @, "InternalError")]
          /\ UNCHANGED <<refreshTokens, rand>>
     ELSE /\ refreshTokens' = Append(refreshTokens,
                [user_id |-> procs[p].uid,
                 token_hash |-> hashToken(procs[p].out),
                 expires_at |-> procs[p].at,
                 revoked |-> FALSE])
          /\ rand' = rand + 1
          /\ procs' = [procs EXCEPT ![p] =
                [@ EXCEPT !.pc = "login_session", !.tok = rand + 1,
                          !.at = now + SessionTtl]]
  /\ UNCHANGED <<users, emailVerifications, passwordResets, userSessions,
                 mail, handed, now, ticks, nreq, failedStreak, bus>>

\* login, lines 170-192: userSession.create (the session token is stored
\* as generated) and the result
LoginCreateSession(p) ==
  /\ procs[p].pc = "login_session"
  /\ userSessions' = Append(userSessions,
        [user_id |-> procs[p].uid,
         session_token |-> procs[p].tok,
         is_active |-> TRUE,
         expires_at |-> procs[p].at])
  /\ handed' = handed \cup {procs[p].out}
  /\ failedStreak' = [failedStreak EXCEPT ![procs[p].uid] = 0]
  /\ procs' = [procs EXCEPT ![p] = Return(p, @, "success")]
  /\ UNCHANGED <<users, emailVerifications, refreshTokens, passwordResets,
                 mail, rand, now, ticks, nreq, bus>>

\* ------------------------------------------------------- refreshToken

\* refreshToken, lines 195-214: jwtService.verify, findUnique by hash, the
\* check of the stored row, then generateTokens, lines 385-401.  Whatever
\* is thrown inside the try block leaves as `Invalid refresh token`.
RefreshFind(p, jwt) ==
  /\ Ready(p)
  /\ nreq' = nreq + 1
  /\ LET rec == [Begin("refreshToken") EXCEPT !.jwt = jwt]
         row == RowByHash(refreshTokens, hashToken(jwt))
     IN  procs' = [procs EXCEPT ![p] =
           IF ~jwtVerify(jwt, now) \/ RefreshTokenRejected(row, now)
           THEN Return(p, rec, "InvalidTokenError")
           ELSE [rec EXCEPT !.pc = "rt_create", !.row = row,
                            !.uid = refreshTokens[row].user_id,
                            !.out = jwtSign(refreshTokens[row].user_id, now, RefreshTokenTtl),
                            !.at = now + RefreshTokenTtl]]
  /\ UNCHANGED <<store, mail, handed, rand, now, ticks, failedStreak, bus>>

\* generateTokens, lines 403-416, called from refreshToken: a duplicate
\* token_hash is a Prisma error, caught at line 227
RefreshCreate(p) ==
  /\ procs[p].pc = "rt_create"
  /\ IF RowByHash(refreshTokens, hashToken(procs[p].out)) # 0
     THEN /\ procs' = [procs EXCEPT ![p] = Return(p, @, "InvalidTokenError")]
          /\ UNCHANGED refreshTokens
     ELSE /\ refreshTokens' = Append(refreshTokens,
                [user_id |-> procs[p].uid,
                 token_hash |-> hashToken(procs[p].out),
                 expires_at |-> procs[p].at,
                 revoked |-> FALSE])
          /\ procs' = [procs EXCEPT ![p] = [@ EXCEPT !.pc = "rt_revoke"]]
  /\ UNCHANGED <<users, emailVerifications, passwordResets, userSessions,
                 mail, handed, rand, now, ticks, nreq, failedStreak, bus>>

\* refreshToken, lines 216-226: the old row is revoked by id, the result
RefreshRevokeOld(p) ==
  /\ procs[p].pc = "rt_revoke"
  /\ refreshTokens' = [refreshTokens EXCEPT ![procs[p].row] = [@ EXCEPT !.revoked = TRUE]]
  /\ handed' = handed \cup {procs[p].out}
  /\ procs' = [procs EXCEPT ![p] = Return(p, @, "success")]
  /\ UNCHANGED <<users, emailVerifications, passwordResets, userSessions,
                 mail, rand, now, ticks, nreq, failedStreak, bus>>

\* refreshToken, lines 196-229: a Prisma call of the try block rejects (the
\* database is unreachable or times out) at the insert of the new row or at
\* the revoke of the old one; nothing is written, and the catch block of
\* lines 227-229 throws `Invalid refresh token` for it
RefreshPrismaError(p) ==
  /\ procs[p].pc \in {"rt_create", "rt_revoke"}
  /\ procs' = [procs EXCEPT ![p] = Return(p, @, "InvalidTokenError")]
  /\ UNCHANGED <<store, mail, handed, rand, now, ticks, nreq, failedStreak, bus>>

\* ------------------------------------------------------------- logout

\* logout, lines 232-237
LogoutRevokeTokens(p, userId) ==
  /\ Ready(p)
  /\ nreq' = nreq + 1
  /\ refreshTokens' = RevokeAll(refreshTokens, userId)
  /\ procs' = [procs EXCEPT ![p] = [Begin("logout") EXCEPT !.uid = userId, !.pc = "lo_sessions"]]
  /\ UNCHANGED <<users, emailVerifications, passwordResets, userSessions,
                 mail, handed, rand, now, ticks, failedStreak, bus>>

\* logout, lines 239-248
LogoutEndSessions(p) ==
  /\ procs[p].pc = "lo_sessions"
  /\ userSessions' = EndAll(userSessions, procs[p].uid)
  /\ procs' = [procs EXCEPT ![p] = Return(p, @, "success")]
  /\ UNCHANGED <<users, emailVerifications, refreshTokens, passwordResets,
                 mail, handed, rand, now, ticks, nreq, failedStreak, bus>>

\* ----------------------------------------------------- forgotPassword

\* forgotPassword, lines 251-268
ForgotFindUser(p, email) ==
  /\ Ready(p)
  /\ nreq' = nreq + 1
  /\ LET rec == [Begin("forgotPassword") EXCEPT !.email = email]
         u == UserByEmail(email)
     IN  IF u = 0
         THEN /\ procs' = [procs EXCEPT ![p] = Return(p, rec, "success")]
              /\ UNCHANGED rand
         ELSE /\ procs' = [procs EXCEPT ![p] =
                    [rec EXCEPT !.pc = "fp_create", !.uid = u, !.tok = rand + 1,
                                !.at = now + ResetTokenTtl]]
              /\ rand' = rand + 1
  /\ UNCHANGED <<store, mail, handed, now, ticks, failedStreak, bus>>

\* forgotPassword, lines 270-286
ForgotCreateReset(p) ==
  /\ procs[p].pc = "fp_create"
  /\ passwordResets' = Append(passwordResets,
        [user_id |-> procs[p].uid,
         token_hash |-> hashToken(procs[p].tok),
         expires_at |-> procs[p].at,
         used |-> FALSE])
  /\ mail' = mail \cup {procs[p].tok}
  /\ procs' = [procs EXCEPT ![p] = Return(p, @, "success")]
  /\ UNCHANGED <<users, emailVerifications, refreshTokens, userSessions,
                 handed, rand, now, ticks, nreq, failedStreak, bus>>

\* ------------------------------------------------------ resetPassword

\* resetPassword, lines 289-303
ResetFind(p, token, newPassword) ==
  /\ Ready(p)
  /\ nreq' = nreq + 1
  /\ LET rec == [Begin("resetPassword") EXCEPT !.tok = token, !.password = newPassword]
         row == RowByHash(passwordResets, hashToken(token))
     IN  procs' = [procs EXCEPT ![p] =
           IF ResetRecordRejected(row, now)
           THEN Return(p, rec, "InvalidOrExpiredTokenError")
           ELSE [rec EXCEPT !.pc = "rp_tx", !.row = row,
                            !.uid = passwordResets[row].user_id]]
  /\ UNCHANGED <<store, mail, handed, rand, now, ticks, failedStreak, bus>>

\* the transaction of lines 305-315 with every reset token of the account
\* marked used (updateMany by user_id for update by id)
ResetTransactionUsingAll(p) ==
  /\ procs[p].pc = "rp_tx"
  /\ users' = [users EXCEPT ![procs[p].uid] =
        [@ EXCEPT !.password_hash = bcryptHash(procs[p].password)]]
  /\ passwordResets' = [i \in DOMAIN passwordResets |->
        IF passwordResets[i].user_id = procs[p].uid
        THEN [passwordResets[i] EXCEPT !.used = TRUE] ELSE passwordResets[i]]
  /\ procs' = [procs EXCEPT ![p] = [@ EXCEPT !.pc = "rp_revoke"]]
  /\ UNCHANGED <<emailVerifications, refreshTokens, userSessions,
                 mail, handed, rand, now, ticks, nreq, failedStreak, bus>>

\* the transaction of lines 305-315 with the lockout fields reset as well
ResetTransactionUnlocking(p) ==
  /\ procs[p].pc = "rp_tx"
  /\ users' = [users EXCEPT ![procs[p].uid] =
        ResetLockout([@ EXCEPT !.password_hash = bcryptHash(procs[p].password)])]
  /\ passwordResets' = [passwordResets EXCEPT ![procs[p].row] = [@ EXCEPT !.used = TRUE]]
  /\ procs' = [procs EXCEPT ![p] = [@ EXCEPT !.pc = "rp_revoke"]]
  /\ UNCHANGED <<emailVerifications, refreshTokens, userSessions,
                 mail, handed, rand, now, ticks, nreq, failedStreak, bus>>

\* resetPassword, lines 305-315: one transaction, both updates by id
ResetTransaction(p) ==
  /\ procs[p].pc = "rp_tx"
  /\ users' = [users EXCEPT ![procs[p].uid] =
        [@ EXCEPT !.password_hash = bcryptHash(procs[p].password)]]
  /\ passwordResets' = [passwordResets EXCEPT ![procs[p].row] = [@ EXCEPT !.used = TRUE]]
  /\ procs' = [procs EXCEPT ![p] = [@ EXCEPT !.pc = "rp_revoke"]]
  /\ UNCHANGED <<emailVerifications, refreshTokens, userSessions,
                 mail, handed, rand, now, ticks, nreq, failedStreak, bus>>

\* resetPassword, lines 317-326
ResetRevokeTokens(p) ==
  /\ procs[p].pc = "rp_revoke"
  /\ refreshTokens' = RevokeAll(refreshTokens, procs[p].uid)
  /\ procs' = [procs EXCEPT ![p] = Return(p, @, "success")]
  /\ UNCHANGED <<users, emailVerifications, passwordResets, userSessions,
                 mail, handed, rand, now, ticks, nreq, failedStreak, bus>>

\* -------------------------------------------------------- verifyEmail

\* verifyEmail, lines 329-338
VerifyFind(p, token) ==
  /\ Ready(p)
  /\ nreq' = nreq + 1
  /\ LET rec == [Begin("verifyEmail") EXCEPT !.tok = token]
         row == RowByHash(emailVerifications, hashToken(token))
     IN  procs' = [procs EXCEPT ![p] =
           IF VerificationRecordRejected(row, now)
           THEN Return(p, rec, "InvalidOrExpiredTokenError")
           ELSE [rec EXCEPT !.pc = "ve_tx", !.row = row,
                            !.email = emailVerifications[row].email]]
  /\ UNCHANGED <<store, mail, handed, rand, now, ticks, failedStreak, bus>>

\* verifyEmail, lines 340-359: one transaction; user.update by email fails
\* when no user has that email, and the transaction is rolled back
VerifyTransaction(p) ==
  /\ procs[p].pc = "ve_tx"
  /\ LET u == UserByEmail(procs[p].email)
     IN  IF u = 0
         THEN /\ procs' = [procs EXCEPT ![p] = Return(p, @, "InternalError")]
              /\ UNCHANGED <<users, emailVerifications>>
         ELSE /\ users' = [users EXCEPT ![u] =
                    [@ EXCEPT !.status = "ACTIVE", !.email_verified = TRUE]]
              /\ emailVerifications' = [emailVerifications EXCEPT ![procs[p].row] =
                    [@ EXCEPT !.verified = TRUE]]
              /\ procs' = [procs EXCEPT ![p] = Return(p, [@ EXCEPT !.uid = u], "success")]
  /\ UNCHANGED <<refreshTokens, passwordResets, userSessions,
                 mail, handed, rand, now, ticks, nreq, failedStreak, bus>>

\* -------------------------------------------------------------- clock
Advance(d) ==
  /\ now' = now + d
  /\ ticks' = ticks + 1
  /\ UNCHANGED <<store, procs, mail, handed, rand, nreq, failedStreak, bus>>

Tick ==
  /\ ticks < MaxTicks
  /\ Advance(1)

\* ---------------------------------------------------------- EventBus
\* the state of the authentication service
auth == <<users, emailVerifications, refreshTokens, passwordResets,
          userSessions, procs, mail, handed, rand, now, ticks, nreq,
          failedStreak>>

\* EventEmitter.emit: every listener of the list is called, in order, for
\* publish call n
RECURSIVE InvokeAll(_, _, _)
InvokeAll(listeners, n, inv) ==
  IF listeners = <<>> THEN inv
  ELSE InvokeAll(Tail(listeners), n,
                 [inv EXCEPT ![Head(listeners)] = Append(@, n)])

\* EventBus.subscribe, lines 197-199, and EventSubscriber.subscribe, lines
\* 109-119: the handler, wrapped, is added to the emitter of the subscriber
BusSubscribe(eventType, handler) ==
  /\ Len(subscriberListeners[eventType]) < MaxSubscriptions
  /\ \A i \in 1..Len(subscriberListeners[eventType]) :
       subscriberListeners[eventType][i] # handler
  /\ subscriberListeners' = [subscriberListeners EXCEPT ![eventType] = Append(@, handler)]
  /\ UNCHANGED <<auth, publisherListeners, eventStoreConfigured, events,
                 pending, invoked, published>>

\* EventBus.publish, lines 179-180, and EventPublisher.publish, lines 60-77:
\* the event is emitted on the emitter of the publisher, whose listeners are
\* called at once; the call is then suspended at its await, and goes on to
\* the event store when one is configured (line 183)
BusPublish(eventType, data) ==
  /\ Len(published) < MaxPublishes
  /\ published' = Append(published, [type |-> eventType, data |-> data])
  /\ invoked' = InvokeAll(publisherListeners[eventType], Len(published) + 1, invoked)
  /\ pending' = IF eventStoreConfigured THEN Append(pending, Len(published) + 1) ELSE pending
  /\ UNCHANGED <<auth, publisherListeners, subscriberListeners,
                 eventStoreConfigured, events>>

\* EventBus.publish, lines 183-194, and InMemoryEventStore.append, lines
\* 140-143: the suspended calls resume in the order they were suspended in
BusStoreAppend ==
  /\ pending # <<>>
  /\ LET n == Head(pending)
     IN  events' = [events EXCEPT ![published[n].type] =
           Append(@, [type |-> published[n].type, data |-> published[n].data,
                      call |-> n])]
  /\ pending' = Tail(pending)
  /\ UNCHANGED <<auth, publisherListeners, subscriberListeners,
                 eventStoreConfigured, invoked, published>>

\* ------------------------------------------------------- what callers hold
MailTokens == mail \cup {BogusToken}
RefreshJwts == handed \cup {ForgedJwt}
\* logout runs behind the JWT guard: the caller is a user who has logged in
LoggedIn == {j.sub : j \in handed}

\* ------------------------------------------- the service, from an empty store
Continue(p) ==
  \/ RegisterCreateUser(p)
  \/ RegisterCreateVerification(p)
  \/ RegisterPrismaError(p)
  \/ HandleFailedLoginFind(p)
  \/ HandleFailedLoginUpdate(p)
  \/ LoginResetUpdate(p)
  \/ LoginGenerateTokens(p)
  \/ LoginCreateSession(p)
  \/ RefreshCreate(p)
  \/ RefreshRevokeOld(p)
  \/ RefreshPrismaError(p)
  \/ LogoutEndSessions(p)
  \/ ForgotCreateReset(p)
  \/ ResetTransaction(p)
  \/ ResetRevokeTokens(p)
  \/ VerifyTransaction(p)

Request(p) ==
  \/ \E email \in Emails, password \in Passwords : RegisterFindUnique(p, email, password)
  \/ \E email \in Emails, password \in Passwords : LoginFindUser(p, email, password)
  \/ \E jwt \in RefreshJwts : RefreshFind(p, jwt)
  \/ \E userId \in LoggedIn : LogoutRevokeTokens(p, userId)
  \/ \E email \in Emails : ForgotFindUser(p, email)
  \/ \E token \in MailTokens, newPassword \in NewPasswords : ResetFind(p, token, newPassword)
  \/ \E token \in MailTokens : VerifyFind(p, token)

Next ==
  \/ \E p \in Procs : nreq < MaxRequests /\ Request(p)
  \/ \E p \in Procs : Continue(p)
  \/ Tick
  \/ \E eventType \in EventTypes, handler \in Handlers : BusSubscribe(eventType, handler)
  \/ \E eventType \in EventTypes, data \in Payloads : BusPublish(eventType, data)
  \/ BusStoreAppend

Spec == Init /\ [][Next]_vars

\* -------------------------- registration and verification, from an empty store
TickVerify ==
  /\ ticks < MaxVerifyTicks
  /\ \E d \in {VerificationTokenTtl, VerificationTokenTtl + 1} : Advance(d)

NextVerify ==
  \/ \E p \in Procs : /\ nreq < MaxVerifyRequests
                      /\ \/ \E email \in Emails, password \in Passwords :
                              RegisterFindUnique(p, email, password)
                         \/ \E token \in MailTokens : VerifyFind(p, token)
  \/ \E p \in Procs : \/ RegisterCreateUser(p)
                      \/ RegisterCreateVerification(p)
                      \/ VerifyTransaction(p)
  \/ TickVerify

SpecVerify == Init /\ [][NextVerify]_vars

\* ------------------- logins of one caller on a registered, verified account
\* the store after register("a@x.com", "Passw0rd!") and verifyEmail with the
\* token of that registration, both at second 0
InitLoginStore ==
  /\ users = <<[email |-> "a@x.com",
                password_hash |-> bcryptHash("Passw0rd!"),
                email_verified |-> TRUE,
                status |-> "ACTIVE",
                locked_until |-> NULL,
                failed_login_attempts |-> 0]>>
  /\ emailVerifications = <<[email |-> "a@x.com",
                             token_hash |-> hashToken(1),
                             expires_at |-> VerificationTokenTtl,
                             verified |-> TRUE]>>
  /\ refreshTokens = <<>>
  /\ passwordResets = <<>>
  /\ userSessions = <<>>
  /\ mail = {1}
  /\ handed = {}
  /\ rand = 1
  /\ now = 0
  /\ failedStreak = <<0>>
  /\ BusIdle

InitLogin ==
  /\ InitLoginStore
  /\ procs = [p \in Procs |-> Idle]
  /\ ticks = 0
  /\ nreq = 0

TickLogin ==
  /\ ticks < MaxLoginTicks
  /\ \E d \in {1, LockDuration} : Advance(d)

\* the requests of one caller: each starts when the one before has ended
NextLogin ==
  \/ /\ nreq < MaxLogins
     /\ \E email \in Emails, password \in Passwords : LoginFindUser(1, email, password)
  \/ HandleFailedLoginFind(1)
  \/ HandleFailedLoginUpdate(1)
  \/ LoginResetUpdate(1)
  \/ LoginGenerateTokens(1)
  \/ LoginCreateSession(1)
  \/ TickLogin

SpecLogin == InitLogin /\ [][NextLogin]_vars

\* ------------------ refresh, logout and password reset on a logged-in account
\* the store after register("a@x.com", "Passw0rd!"), verifyEmail with the
\* token of that registration and login("a@x.com", "Passw0rd!"), all at
\* second 0, one second ago
InitTokenStore ==
  /\ users = <<[email |-> "a@x.com",
                password_hash |-> bcryptHash("Passw0rd!"),
                email_verified |-> TRUE,
                status |-> "ACTIVE",
                locked_until |-> NULL,
                failed_login_attempts |-> 0]>>
  /\ emailVerifications = <<[email |-> "a@x.com",
                             token_hash |-> hashToken(1),
                             expires_at |-> VerificationTokenTtl,
                             verified |-> TRUE]>>
  /\ refreshTokens = <<[user_id |-> 1,
                        token_hash |-> hashToken(jwtSign(1, 0, RefreshTokenTtl)),
                        expires_at |-> RefreshTokenTtl,
                        revoked |-> FALSE]>>
  /\ passwordResets = <<>>
  /\ userSessions = <<[user_id |-> 1,
                       session_token |-> 2,
                       is_active |-> TRUE,
                       expires_at |-> SessionTtl]>>
  /\ mail = {1}
  /\ handed = {jwtSign(1, 0, RefreshTokenTtl)}
  /\ rand = 2
  /\ now = 1
  /\ failedStreak = <<0>>
  /\ BusIdle

InitToken ==
  /\ InitTokenStore
  /\ procs = [p \in Procs |-> Idle]
  /\ ticks = 0
  /\ nreq = 0

\* the clock moves on by the lifetime of a reset token or of a refresh token
TickToken ==
  /\ ticks < MaxTokenTicks
  /\ \E d \in {ResetTokenTtl, RefreshTokenTtl} : Advance(d)

NextToken ==
  \/ \E p \in Procs :
       /\ nreq < MaxTokenRequests
       /\ \/ \E jwt \in RefreshJwts : RefreshFind(p, jwt)
          \/ \E userId \in LoggedIn : LogoutRevokeTokens(p, userId)
          \/ \E email \in Emails : ForgotFindUser(p, email)
          \/ \E token \in MailTokens, newPassword \in NewPasswords :
               ResetFind(p, token, newPassword)
  \/ \E p \in Procs : \/ RefreshCreate(p)
                      \/ RefreshRevokeOld(p)
                      \/ LogoutEndSessions(p)
                      \/ ForgotCreateReset(p)
                      \/ ResetTransaction(p)
                      \/ ResetRevokeTokens(p)
  \/ TickToken

SpecToken == InitToken /\ [][NextToken]_vars

\* ------------- register, verifyEmail and login, one request after the other
\* from an empty store: a request starts when no other is in flight, and
\* accounts are registered with the password "Passw0rd!"
NextRoundTrip ==
  \/ \E p \in Procs :
       /\ nreq < MaxRoundTripRequests
       /\ \A q \in Procs : Ready(q)
       /\ \/ \E email \in Emails : RegisterFindUnique(p, email, "Passw0rd!")
          \/ \E token \in MailTokens : VerifyFind(p, token)
          \/ \E email \in Emails, password \in Passwords :
               LoginFindUser(p, email, password)
  \/ \E p \in Procs : \/ RegisterCreateUser(p)
                      \/ RegisterCreateVerification(p)
                      \/ VerifyTransaction(p)
                      \/ HandleFailedLoginFind(p)
                      \/ HandleFailedLoginUpdate(p)
                      \/ LoginResetUpdate(p)
                      \/ LoginGenerateTokens(p)
                      \/ LoginCreateSession(p)
  \/ Tick

SpecRoundTrip == Init /\ [][NextRoundTrip]_vars

\* ---------- login, refreshToken and logout, one request after the other, on
\* the logged-in account
NextLogout ==
  \/ \E p \in Procs :
       /\ nreq < MaxLogoutRequests
       /\ \A q \in Procs : Ready(q)
       /\ \/ \E email \in Emails, password \in Passwords :
               LoginFindUser(p, email, password)
          \/ \E jwt \in RefreshJwts : RefreshFind(p, jwt)
          \/ \E userId \in LoggedIn : LogoutRevokeTokens(p, userId)
  \/ \E p \in Procs : \/ HandleFailedLoginFind(p)
                      \/ HandleFailedLoginUpdate(p)
                      \/ LoginResetUpdate(p)
                      \/ LoginGenerateTokens(p)
                      \/ LoginCreateSession(p)
                      \/ RefreshCreate(p)
                      \/ RefreshRevokeOld(p)
                      \/ LogoutEndSessions(p)
  \/ Tick

SpecLogout == InitToken /\ [][NextLogout]_vars

\* ------------- logins of one caller on a registered account of any status
\* enum UserStatus of the schema
UserStatus == {"ACTIVE", "INACTIVE", "SUSPENDED", "PENDING_VERIFICATION"}

\* the store after register("a@x.com", "Passw0rd!") at second 0; the account
\* is still pending, or it has been verified and an administrator has since
\* set its status column to any value of the enum
InitStatus ==
  /\ \E status \in UserStatus :
       /\ users = <<[email |-> "a@x.com",
                     password_hash |-> bcryptHash("Passw0rd!"),
                     email_verified |-> status # "PENDING_VERIFICATION",
                     status |-> status,
                     locked_until |-> NULL,
                     failed_login_attempts |-> 0]>>
       /\ emailVerifications = <<[email |-> "a@x.com",
                                  token_hash |-> hashToken(1),
                                  expires_at |-> VerificationTokenTtl,
                                  verified |-> status # "PENDING_VERIFICATION"]>>
  /\ refreshTokens = <<>>
  /\ passwordResets = <<>>
  /\ userSessions = <<>>
  /\ mail = {1}
  /\ handed = {}
  /\ rand = 1
  /\ now = 0
  /\ failedStreak = <<0>>
  /\ BusIdle
  /\ procs = [p \in Procs |-> Idle]
  /\ ticks = 0
  /\ nreq = 0

NextStatus ==
  \/ /\ nreq < MaxStatusLogins
     /\ \E email \in Emails, password \in Passwords : LoginFindUser(1, email, password)
  \/ HandleFailedLoginFind(1)
  \/ HandleFailedLoginUpdate(1)
  \/ LoginResetUpdate(1)
  \/ LoginGenerateTokens(1)
  \/ LoginCreateSession(1)
  \/ TickLogin

SpecStatus == InitStatus /\ [][NextStatus]_vars

\* ---------- verifyEmail on a registered, not yet verified account of any status
\* the store after register("a@x.com", "Passw0rd!") at second 0; the account
\* is still pending, or an administrator has set its status column to
\* INACTIVE or SUSPENDED before the e-mail was verified
InitVerifyStatus ==
  /\ \E status \in UserStatus \ {"ACTIVE"} :
       users = <<[email |-> "a@x.com",
                  password_hash |-> bcryptHash("Passw0rd!"),
                  email_verified |-> FALSE,
                  status |-> status,
                  locked_until |-> NULL,
                  failed_login_attempts |-> 0]>>
  /\ emailVerifications = <<[email |-> "a@x.com",
                             token_hash |-> hashToken(1),
                             expires_at |-> VerificationTokenTtl,
                             verified |-> FALSE]>>
  /\ refreshTokens = <<>>
  /\ passwordResets = <<>>
  /\ userSessions = <<>>
  /\ mail = {1}
  /\ handed = {}
  /\ rand = 1
  /\ now = 0
  /\ failedStreak = <<0>>
  /\ BusIdle
  /\ procs = [p \in Procs |-> Idle]
  /\ ticks = 0
  /\ nreq = 0

NextVerifyStatus ==
  \/ \E p \in Procs : /\ nreq < MaxVerifyRequests
                      /\ \E token \in MailTokens : VerifyFind(p, token)
  \/ \E p \in Procs : VerifyTransaction(p)
  \/ TickVerify

SpecVerifyStatus == InitVerifyStatus /\ [][NextVerifyStatus]_vars

\* ------------------- concurrent logins on an account one failure from the lock
\* the store after register("a@x.com", "Passw0rd!"), verifyEmail with the
\* token of that registration and four logins with a wrong password, all
\* at second 0
InitRace ==
  /\ users = <<[email |-> "a@x.com",
                password_hash |-> bcryptHash("Passw0rd!"),
                email_verified |-> TRUE,
                status |-> "ACTIVE",
                locked_until |-> NULL,
                failed_login_attempts |-> MaxFailedLoginAttempts - 1]>>
  /\ emailVerifications = <<[email |-> "a@x.com",
                             token_hash |-> hashToken(1),
                             expires_at |-> VerificationTokenTtl,
                             verified |-> TRUE]>>
  /\ refreshTokens = <<>>
  /\ passwordResets = <<>>
  /\ userSessions = <<>>
  /\ mail = {1}
  /\ handed = {}
  /\ rand = 1
  /\ now = 0
  /\ failedStreak = <<MaxFailedLoginAttempts - 1>>
  /\ BusIdle
  /\ procs = [p \in Procs |-> Idle]
  /\ ticks = 0
  /\ nreq = 0

NextRace ==
  \/ \E p \in Procs :
       /\ nreq < MaxRaceLogins
       /\ \E email \in Emails, password \in Passwords : LoginFindUser(p, email, password)
  \/ \E p \in Procs : \/ HandleFailedLoginFind(p)
                      \/ HandleFailedLoginUpdate(p)
                      \/ LoginResetUpdate(p)
                      \/ LoginGenerateTokens(p)
                      \/ LoginCreateSession(p)
  \/ TickLogin

SpecRace == InitRace /\ [][NextRace]_vars

\* ------------- rotations of the refresh tokens of a logged-in account, with
\* a database that may fail under them
NextRefresh ==
  \/ \E p \in Procs : /\ nreq < MaxRefreshRequests
                      /\ \E jwt \in RefreshJwts : RefreshFind(p, jwt)
  \/ \E p \in Procs : \/ RefreshCreate(p)
                      \/ RefreshRevokeOld(p)
                      \/ RefreshPrismaError(p)
  \/ TickToken

SpecRefresh == InitToken /\ [][NextRefresh]_vars

\* -------------- forgotPassword and resetPassword for a logged-in account
NextReset ==
  \/ \E p \in Procs :
       /\ nreq < MaxResetRequests
       /\ \/ \E email \in Emails : ForgotFindUser(p, email)
          \/ \E token \in MailTokens, newPassword \in NewPasswords :
               ResetFind(p, token, newPassword)
  \/ \E p \in Procs : \/ ForgotCreateReset(p)
                      \/ ResetTransaction(p)
                      \/ ResetRevokeTokens(p)
  \/ TickToken

SpecReset == InitToken /\ [][NextReset]_vars

\* ------- logins and rotations, one after the other, on a locked account
\* the store after register("a@x.com", "Passw0rd!"), verifyEmail with the
\* token of that registration, login("a@x.com", "Passw0rd!") and five
\* logins with a wrong password, all at second 0
InitUnlock ==
  /\ users = <<[email |-> "a@x.com",
                password_hash |-> bcryptHash("Passw0rd!"),
                email_verified |-> TRUE,
                status |-> "ACTIVE",
                locked_until |-> LockDuration,
                failed_login_attempts |-> MaxFailedLoginAttempts]>>
  /\ emailVerifications = <<[email |-> "a@x.com",
                             token_hash |-> hashToken(1),
                             expires_at |-> VerificationTokenTtl,
                             verified |-> TRUE]>>
  /\ refreshTokens = <<[user_id |-> 1,
                        token_hash |-> hashToken(jwtSign(1, 0, RefreshTokenTtl)),
                        expires_at |-> RefreshTokenTtl,
                        revoked |-> FALSE]>>
  /\ passwordResets = <<>>
  /\ userSessions = <<[user_id |-> 1,
                       session_token |-> 2,
                       is_active |-> TRUE,
                       expires_at |-> SessionTtl]>>
  /\ mail = {1}
  /\ handed = {jwtSign(1, 0, RefreshTokenTtl)}
  /\ rand = 2
  /\ now = 0
  /\ failedStreak = <<MaxFailedLoginAttempts>>
  /\ BusIdle
  /\ procs = [p \in Procs |-> Idle]
  /\ ticks = 0
  /\ nreq = 0

NextUnlock ==
  \/ \E p \in Procs :
       /\ nreq < MaxUnlockRequests
       /\ \A q \in Procs : Ready(q)
       /\ \/ \E email \in Emails, password \in Passwords :
               LoginFindUser(p, email, password)
          \/ \E jwt \in RefreshJwts : RefreshFind(p, jwt)
  \/ \E p \in Procs : \/ HandleFailedLoginFind(p)
                      \/ HandleFailedLoginUpdate(p)
                      \/ LoginResetUpdate(p)
                      \/ LoginGenerateTokens(p)
                      \/ LoginCreateSession(p)
                      \/ RefreshCreate(p)
                      \/ RefreshRevokeOld(p)
  \/ TickLogin

SpecUnlock == InitUnlock /\ [][NextUnlock]_vars

\* ------ a burst of wrong-password logins on a registered, verified account
\* every login but the first starts while another login is in flight, and
\* the burst is shorter than a second
NextBurst ==
  \/ \E p \in Procs :
       /\ nreq < MaxBurstLogins
       /\ nreq = 0 \/ \E q \in Procs : ~Ready(q)
       /\ LoginFindUser(p, "a@x.com", "wrong")
  \/ \E p \in Procs : \/ HandleFailedLoginFind(p)
                      \/ HandleFailedLoginUpdate(p)

SpecBurst == InitLogin /\ [][NextBurst]_vars

\* ------------- registrations, from an empty store, with a database that may
\* fail under them
NextRegister ==
  \/ \E p \in Procs : /\ nreq < MaxRegisterRequests
                      /\ \E email \in Emails, password \in Passwords :
                           RegisterFindUnique(p, email, password)
  \/ \E p \in Procs : \/ RegisterCreateUser(p)
                      \/ RegisterCreateVerification(p)
                      \/ RegisterPrismaError(p)
  \/ TickVerify

SpecRegister == Init /\ [][NextRegister]_vars

\* ------------- forgotPassword and resetPassword for a locked account (the
\* store of InitUnlock)
SpecResetLocked == InitUnlock /\ [][NextReset]_vars

\* -------- register, verifyEmail, login and refreshToken, concurrent, from an
\* empty store; accounts are registered with the password "Passw0rd!" and
\* logins present that password
NextSession ==
  \/ \E p \in Procs :
       /\ nreq < MaxSessionRequests
       /\ \/ \E email \in Emails : RegisterFindUnique(p, email, "Passw0rd!")
          \/ \E token \in MailTokens : VerifyFind(p, token)
          \/ \E email \in Emails : LoginFindUser(p, email, "Passw0rd!")
          \/ \E jwt \in RefreshJwts : RefreshFind(p, jwt)
  \/ \E p \in Procs : \/ RegisterCreateUser(p)
                      \/ RegisterCreateVerification(p)
                      \/ VerifyTransaction(p)
                      \/ LoginResetUpdate(p)
                      \/ LoginGenerateTokens(p)
                      \/ LoginCreateSession(p)
                      \/ RefreshCreate(p)
                      \/ RefreshRevokeOld(p)
  \/ Tick

SpecSession == Init /\ [][NextSession]_vars

\* ------ rotations of the refresh token of an account that is locked and may
\* have been deactivated
\* the store of InitUnlock one second later; an administrator may have set
\* the status column to INACTIVE or SUSPENDED since
InitRotate ==
  /\ \E status \in UserStatus \ {"PENDING_VERIFICATION"} :
       users = <<[email |-> "a@x.com",
                  password_hash |-> bcryptHash("Passw0rd!"),
                  email_verified |-> TRUE,
                  status |-> status,
                  locked_until |-> LockDuration,
                  failed_login_attempts |-> MaxFailedLoginAttempts]>>
  /\ emailVerifications = <<[email |-> "a@x.com",
                             token_hash |-> hashToken(1),
                             expires_at |-> VerificationTokenTtl,
                             verified |-> TRUE]>>
  /\ refreshTokens = <<[user_id |-> 1,
                        token_hash |-> hashToken(jwtSign(1, 0, RefreshTokenTtl)),
                        expires_at |-> RefreshTokenTtl,
                        revoked |-> FALSE]>>
  /\ passwordResets = <<>>
  /\ userSessions = <<[user_id |-> 1,
                       session_token |-> 2,
                       is_active |-> TRUE,
                       expires_at |-> SessionTtl]>>
  /\ mail = {1}
  /\ handed = {jwtSign(1, 0, RefreshTokenTtl)}
  /\ rand = 2
  /\ now = 1
  /\ failedStreak = <<MaxFailedLoginAttempts>>
  /\ BusIdle
  /\ procs = [p \in Procs |-> Idle]
  /\ ticks = 0
  /\ nreq = 0

NextRotate ==
  \/ \E p \in Procs : /\ nreq < MaxRefreshRequests
                      /\ \E jwt \in RefreshJwts : RefreshFind(p, jwt)
  \/ \E p \in Procs : \/ RefreshCreate(p)
                      \/ RefreshRevokeOld(p)
  \/ TickToken

SpecRotate == InitRotate /\ [][NextRotate]_vars

\* ------ forgotPassword and resetPassword for a logged-in account that has a
\* reset token outstanding
\* the store of InitToken after forgotPassword("a@x.com") at second 1
InitResetPending ==
  /\ users = <<[email |-> "a@x.com",
                password_hash |-> bcryptHash("Passw0rd!"),
                email_verified |-> TRUE,
                status |-> "ACTIVE",
                locked_until |-> NULL,
                failed_login_attempts |-> 0]>>
  /\ emailVerifications = <<[email |-> "a@x.com",
                             token_hash |-> hashToken(1),
                             expires_at |-> VerificationTokenTtl,
                             verified |-> TRUE]>>
  /\ refreshTokens = <<[user_id |-> 1,
                        token_hash |-> hashToken(jwtSign(1, 0, RefreshTokenTtl)),
                        expires_at |-> RefreshTokenTtl,
                        revoked |-> FALSE]>>
  /\ passwordResets = <<[user_id |-> 1,
                         token_hash |-> hashToken(3),
                         expires_at |-> 1 + ResetTokenTtl,
                         used |-> FALSE]>>
  /\ userSessions = <<[user_id |-> 1,
                       session_token |-> 2,
                       is_active |-> TRUE,
                       expires_at |-> SessionTtl]>>
  /\ mail = {1, 3}
  /\ handed = {jwtSign(1, 0, RefreshTokenTtl)}
  /\ rand = 3
  /\ now = 1
  /\ failedStreak = <<0>>
  /\ BusIdle
  /\ procs = [p \in Procs |-> Idle]
  /\ ticks = 0
  /\ nreq = 0

SpecResetPending == InitResetPending /\ [][NextReset]_vars

\* ------------- an event bus, created with or without an event store, its
\* subscribers and its publishers
InitEventBus ==
  /\ users = <<>>
  /\ emailVerifications = <<>>
  /\ refreshTokens = <<>>
  /\ passwordResets = <<>>
  /\ userSessions = <<>>
  /\ procs = [p \in Procs |-> Idle]
  /\ mail = {}
  /\ handed = {}
  /\ rand = 0
  /\ now = 0
  /\ ticks = 0
  /\ nreq = 0
  /\ failedStreak = <<>>
  /\ publisherListeners = [t \in EventTypes |-> <<>>]
  /\ subscriberListeners = [t \in EventTypes |-> <<>>]
  /\ eventStoreConfigured \in BOOLEAN
  /\ events = [t \in EventTypes |-> <<>>]
  /\ pending = <<>>
  /\ invoked = [h \in Handlers |-> <<>>]
  /\ published = <<>>

NextEventBus ==
  \/ \E eventType \in EventTypes, handler \in Handlers : BusSubscribe(eventType, handler)
  \/ \E eventType \in EventTypes, data \in Payloads : BusPublish(eventType, data)
  \/ BusStoreAppend

SpecEventBus == InitEventBus /\ [][NextEventBus]_vars

\* ------------------------------------------------------------ properties

\* process p starts a request of `op` in this step (a request starts with
\* its first store call)
Starts(p, op) == Ready(p) /\ procs'[p] # procs[p] /\ procs'[p].op = op

\* the request that p started in this step has already ended with `result`
EndsWith(p, result) == procs'[p].pc = "idle" /\ procs'[p].result = result

\* the last request of p was `op` and it has ended with `result`
Ended(p, op, result) ==
  procs[p].pc = "idle" /\ procs[p].op = op /\ procs[p].result = result

\* the e-mail address with its letters in lower case
Lower(email) == IF email = "A@x.com" THEN "a@x.com" ELSE email

\* C9: a verifyEmail call that presents a token whose record is already
\* verified ends with InvalidOrExpiredTokenError and changes nothing in the
\* store, expired or not; and a verified record stays verified.
C9_VerifiedTokenRejected ==
  [][ /\ \A i \in DOMAIN emailVerifications :
           emailVerifications[i].verified =>
             i \in DOMAIN emailVerifications' /\ emailVerifications'[i].verified
      /\ \A p \in Procs :
           LET row == RowByHash(emailVerifications, hashToken(procs'[p].tok))
           IN  (Starts(p, "verifyEmail") /\ row # 0 /\ emailVerifications[row].verified)
                 => (EndsWith(p, "InvalidOrExpiredTokenError") /\ store' = store)
    ]_vars

\* C9 witness: a verifyEmail call was rejected for a token that is verified
\* and has not expired, so the verified flag alone rejected it
C9_Witness ==
  \E p \in Procs :
    LET row == RowByHash(emailVerifications, hashToken(procs[p].tok))
    IN  /\ Ended(p, "verifyEmail", "InvalidOrExpiredTokenError")
        /\ row # 0
        /\ emailVerifications[row].verified
        /\ now <= emailVerifications[row].expires_at

\* C10: once a registration with e-mail e has succeeded, a register call
\* whose e-mail equals e up to letter case ends with ConflictError.
C10_CaseInsensitiveConflict ==
  [][ \A p \in Procs :
        ( /\ Starts(p, "register")
          /\ \E q \in Procs : /\ Ended(q, "register", "success")
                              /\ Lower(procs[q].email) = Lower(procs'[p].email) )
        => EndsWith(p, "ConflictError")
    ]_vars

\* the lockout states of an account
Locked(u) == users[u].locked_until # NULL /\ users[u].locked_until > now

Unlocked(u) ==
  /\ users[u].failed_login_attempts < MaxFailedLoginAttempts
  /\ (users[u].locked_until = NULL \/ users[u].locked_until <= now)

\* a login on account u has passed every check and has not yet returned
Succeeding(u) ==
  \E p \in Procs : procs[p].uid = u /\ procs[p].pc \in {"login_tokens", "login_session"}

\* C3: an account with a run of 5 (or more) wrong-password logins behind it
\* and no successful login since (none returned, none about to return) has
\* locked_until set, from the step that completes the fifth of them on; and
\* every login on it made while now < locked_until ends with
\* AccountLockedError, whatever password is supplied.
C3_LockedAfterMaxFailures ==
  [][ \A u \in DOMAIN users :
        /\ (failedStreak'[u] >= MaxFailedLoginAttempts /\ ~Succeeding(u)')
             => users'[u].locked_until # NULL
        /\ \A p \in Procs :
             ( /\ Starts(p, "login")
               /\ procs'[p].uid = u
               /\ failedStreak[u] >= MaxFailedLoginAttempts
               /\ now < users[u].locked_until )
             => EndsWith(p, "AccountLockedError")
    ]_vars

\* C3 witness: a login with the correct password was refused as locked after
\* 5 wrong-password logins in a row
C3_Witness ==
  \E p \in Procs :
    /\ Ended(p, "login", "AccountLockedError")
    /\ bcryptCompare(procs[p].password, users[procs[p].uid].password_hash)
    /\ failedStreak[procs[p].uid] >= MaxFailedLoginAttempts

\* C4: when a login returns success the account has
\* failed_login_attempts = 0 and locked_until = null, whatever the row it
\* read held.
C4_SuccessResetsLockout ==
  \A p \in Procs :
    Ended(p, "login", "success")
      => /\ users[procs[p].uid].failed_login_attempts = 0
         /\ users[procs[p].uid].locked_until = NULL

\* C4 witness: a login has succeeded on an account it found with the counter
\* at the threshold and a lock (by then expired) set
C4_Witness ==
  \E p \in Procs :
    /\ Ended(p, "login", "success")
    /\ procs[p].user.failed_login_attempts >= MaxFailedLoginAttempts
    /\ procs[p].user.locked_until # NULL
    /\ users[procs[p].uid].failed_login_attempts = 0

\* C5: every account is in exactly one of the states Locked and Unlocked.
C5_LockedOrUnlocked ==
  \A u \in DOMAIN users : (Locked(u) /\ ~Unlocked(u)) \/ (Unlocked(u) /\ ~Locked(u))

\* C6: a login on a Locked account ends at its first step with
\* AccountLockedError, writes nothing to the store and does not run
\* bcrypt.compare.
C6_LockedLoginRejectedEarly ==
  [][ \A p \in Procs :
        ( /\ Starts(p, "login")
          /\ procs'[p].uid # 0
          /\ Locked(procs'[p].uid) )
        => /\ EndsWith(p, "AccountLockedError")
           /\ ~procs'[p].compared
           /\ store' = store
    ]_vars

\* C6 witness: a login was refused as locked and left the counter and the
\* lock as they were
C6_Witness ==
  \E p \in Procs :
    /\ Ended(p, "login", "AccountLockedError")
    /\ ~procs[p].compared
    /\ Locked(procs[p].uid)
    /\ users[procs[p].uid] = procs[p].user

\* C1: two refreshToken calls that present the same token never both end
\* with success.
C1_OneRotationPerToken ==
  \A p, q \in Procs :
    ( /\ p # q
      /\ Ended(p, "refreshToken", "success")
      /\ Ended(q, "refreshToken", "success") )
    => procs[p].jwt # procs[q].jwt

\* C2: a revoked RefreshToken row stays revoked, and a refreshToken call that
\* presents a token whose row is revoked ends with InvalidTokenError and
\* leaves the store as it is (no row is inserted).
C2_RevokedStaysRevoked ==
  [][ /\ \A i \in DOMAIN refreshTokens :
           refreshTokens[i].revoked =>
             i \in DOMAIN refreshTokens' /\ refreshTokens'[i].revoked
      /\ \A p \in Procs :
           LET row == RowByHash(refreshTokens, hashToken(procs'[p].jwt))
           IN  (Starts(p, "refreshToken") /\ row # 0 /\ refreshTokens[row].revoked)
                 => (EndsWith(p, "InvalidTokenError") /\ store' = store)
    ]_vars

\* C2 witness: a refreshToken call was rejected for a correctly signed token
\* that is revoked and has not expired
C2_Witness ==
  \E p \in Procs :
    LET row == RowByHash(refreshTokens, hashToken(procs[p].jwt))
    IN  /\ Ended(p, "refreshToken", "InvalidTokenError")
        /\ row # 0
        /\ refreshTokens[row].revoked
        /\ jwtVerify(procs[p].jwt, now)
        /\ now <= refreshTokens[row].expires_at

\* C7: a resetPassword call that presents an unused, unexpired token is
\* accepted and, when it has returned success, the token is marked used; a
\* resetPassword call that presents a used token ends with
\* InvalidOrExpiredTokenError and leaves the store (password_hash included)
\* as it is.
C7_ResetTokenSingleUse ==
  [][ \A p \in Procs :
        LET row == RowByHash(passwordResets, hashToken(procs'[p].tok))
        IN  /\ (Starts(p, "resetPassword") /\ row # 0 /\ passwordResets[row].used)
                 => (EndsWith(p, "InvalidOrExpiredTokenError") /\ store' = store)
            /\ ( /\ Starts(p, "resetPassword") /\ row # 0
                 /\ ~passwordResets[row].used
                 /\ now <= passwordResets[row].expires_at )
                 => procs'[p].pc = "rp_tx"
            /\ (procs[p].pc = "rp_revoke" /\ procs'[p].pc = "idle")
                 => /\ procs'[p].result = "success"
                    /\ passwordResets'[procs[p].row].used
    ]_vars

\* C7 witness: after a successful reset, a second resetPassword with the same
\* unexpired token and another password was rejected, and the password is
\* the one the first reset set
C7_Witness ==
  \E p \in Procs :
    LET row == RowByHash(passwordResets, hashToken(procs[p].tok))
    IN  /\ Ended(p, "resetPassword", "InvalidOrExpiredTokenError")
        /\ row # 0
        /\ passwordResets[row].used
        /\ now <= passwordResets[row].expires_at
        /\ users[passwordResets[row].user_id].password_hash \in
             {bcryptHash(w) : w \in NewPasswords \ {procs[p].password}}

\* C8: two resetPassword calls that present the same token never both end
\* with success.
C8_OneResetPerToken ==
  \A p, q \in Procs :
    ( /\ p # q
      /\ Ended(p, "resetPassword", "success")
      /\ Ended(q, "resetPassword", "success") )
    => procs[p].tok # procs[q].tok

\* C11: a register call that passed the existence check while another
\* register with the same e-mail was under way, and finds the e-mail taken
\* when it inserts, ends with ConflictError and creates no account; and no
\* two accounts ever share an e-mail.
C11_ConcurrentRegisterConflict ==
  [][ /\ \A p \in Procs :
           ( /\ procs[p].pc = "reg_create"
             /\ procs'[p] # procs[p]
             /\ UserByEmail(procs[p].email) # 0 )
           => (EndsWith(p, "ConflictError") /\ users' = users)
      /\ \A i, j \in DOMAIN users' : users'[i].email = users'[j].email => i = j
    ]_vars

\* the account has never had a failed login or a lock, and no refresh token
FreshAccount(u) ==
  /\ users[u].failed_login_attempts = 0
  /\ users[u].locked_until = NULL
  /\ \A i \in DOMAIN refreshTokens : refreshTokens[i].user_id # u

\* C12: on a registered account that has had no other login, a login with
\* the registered password ends with EmailNotVerifiedError while the account
\* is PENDING_VERIFICATION; once verifyEmail has made it ACTIVE the login
\* passes every check, stores a refresh token and returns success with a
\* signed token that the store knows.
C12_RegisterVerifyLogin ==
  [][ \A p \in Procs :
        LET u == procs'[p].uid
        IN  /\ ( /\ Starts(p, "login")
                 /\ u # 0
                 /\ FreshAccount(u)
                 /\ bcryptCompare(procs'[p].password, users[u].password_hash)
                 /\ users[u].status = "PENDING_VERIFICATION" )
               => (EndsWith(p, "EmailNotVerifiedError") /\ store' = store)
            /\ ( /\ Starts(p, "login")
                 /\ u # 0
                 /\ FreshAccount(u)
                 /\ bcryptCompare(procs'[p].password, users[u].password_hash)
                 /\ users[u].status = "ACTIVE" )
               => procs'[p].pc = "login_reset"
            /\ ( /\ procs[p].pc \in {"login_reset", "login_tokens"}
                 /\ procs'[p] # procs[p]
                 /\ \A i \in DOMAIN refreshTokens : refreshTokens[i].user_id # u )
               => procs'[p].pc \in {"login_tokens", "login_session"}
            /\ ( /\ procs[p].pc = "login_session"
                 /\ procs'[p] # procs[p] )
               => /\ procs'[p].pc = "idle"
                  /\ procs'[p].result = "success"
                  /\ jwtVerify(procs'[p].out, now')
                  /\ procs'[p].out.sub = u
                  /\ RowByHash(refreshTokens', hashToken(procs'[p].out)) # 0
                  /\ \E i \in DOMAIN userSessions' :
                       userSessions'[i].user_id = u /\ userSessions'[i].is_active
    ]_vars

\* C12 witness: a login with the registered password was refused before the
\* verification and has succeeded after it
C12_Witness ==
  \E p, q \in Procs :
    /\ Ended(p, "login", "EmailNotVerifiedError")
    /\ Ended(q, "login", "success")
    /\ procs[p].email = procs[q].email
    /\ procs[p].password = procs[q].password
    /\ users[procs[q].uid].email_verified

\* C13: when a resetPassword call returns success, every RefreshToken row of
\* the account is revoked (the rows that existed before the call among
\* them), so that every refresh token handed out for the account is one
\* that refreshToken rejects; and a refreshToken call made after a
\* successful reset with a revoked token of the account ends with
\* InvalidTokenError.
C13_ResetRevokesRefreshTokens ==
  [][ \A p \in Procs :
        /\ (procs[p].pc = "rp_revoke" /\ procs'[p].pc = "idle")
             => /\ procs'[p].result = "success"
                /\ \A i \in DOMAIN refreshTokens :
                     refreshTokens[i].user_id = procs[p].uid => refreshTokens'[i].revoked
                /\ \A jwt \in handed :
                     jwt.sub = procs[p].uid
                       => RefreshTokenRejected(RowByHash(refreshTokens, hashToken(jwt)), now)'
        /\ \A q \in Procs :
             LET row == RowByHash(refreshTokens, hashToken(procs'[q].jwt))
             IN  ( /\ Ended(p, "resetPassword", "success")
                   /\ Starts(q, "refreshToken")
                   /\ row # 0
                   /\ refreshTokens[row].user_id = procs[p].uid
                   /\ refreshTokens[row].revoked )
                 => (EndsWith(q, "InvalidTokenError") /\ store' = store)
    ]_vars

\* C13 witness: after a successful resetPassword, a refreshToken call with a
\* correctly signed, unexpired token of that account was rejected
C13_Witness ==
  \E p, q \in Procs :
    LET row == RowByHash(refreshTokens, hashToken(procs[q].jwt))
    IN  /\ Ended(p, "resetPassword", "success")
        /\ Ended(q, "refreshToken", "InvalidTokenError")
        /\ row # 0
        /\ refreshTokens[row].user_id = procs[p].uid
        /\ jwtVerify(procs[q].jwt, now)
        /\ now <= refreshTokens[row].expires_at
        /\ \A i \in DOMAIN refreshTokens : refreshTokens[i].revoked

\* C14: when a resetPassword call returns success, the account has no
\* active session left.
C14_ResetEndsSessions ==
  [][ \A p \in Procs :
        (procs[p].pc = "rp_revoke" /\ procs'[p].pc = "idle")
          => \A i \in DOMAIN userSessions' :
               userSessions'[i].user_id = procs[p].uid => ~userSessions'[i].is_active
    ]_vars

\* the account has no non-revoked refresh token and no active session
LoggedOut(u) ==
  /\ \A i \in DOMAIN refreshTokens : refreshTokens[i].user_id = u => refreshTokens[i].revoked
  /\ \A i \in DOMAIN userSessions : userSessions[i].user_id = u => ~userSessions[i].is_active

\* C15: with the requests run one after the other, a logout returns success
\* and leaves the account with no non-revoked refresh token and no active
\* session; a logout of an account that is already in that state returns
\* success too and changes nothing in the store, at either of its steps.
C15_LogoutIdempotent ==
  [][ \A p \in Procs :
        /\ (procs[p].pc = "lo_sessions" /\ procs'[p] # procs[p])
             => /\ EndsWith(p, "success")
                /\ LoggedOut(procs[p].uid)'
        /\ (Starts(p, "logout") /\ LoggedOut(procs'[p].uid))
             => (store' = store /\ procs'[p].pc = "lo_sessions")
        /\ (procs[p].pc = "lo_sessions" /\ procs'[p] # procs[p] /\ LoggedOut(procs[p].uid))
             => store' = store
    ]_vars

\* C15 witness: two logouts of the same account have returned success, the
\* second on an account already logged out, and the account is logged out
C15_Witness ==
  \E p, q \in Procs :
    /\ p # q
    /\ Ended(p, "logout", "success")
    /\ Ended(q, "logout", "success")
    /\ procs[p].uid = procs[q].uid
    /\ LoggedOut(procs[p].uid)
    /\ \E i \in DOMAIN userSessions : userSessions[i].user_id = procs[p].uid

\* the valid (non-revoked, non-expired) refresh tokens of an account
ValidTokens(u) ==
  {i \in DOMAIN refreshTokens :
     /\ refreshTokens[i].user_id = u
     /\ ~refreshTokens[i].revoked
     /\ now <= refreshTokens[i].expires_at}

\* C16: an account that has logged in once (one login session, the only
\* source of token chains in these behaviours being that login) has at most
\* one valid refresh token in every state, the states between the steps of
\* refreshToken included.
C16_OneValidTokenPerSession ==
  \A u \in DOMAIN users : Cardinality(ValidTokens(u)) <= 1

\* the raw values generateSecureToken has produced so far
RawTokens == 1..rand

\* C17: every token column of the store holds the hash of a raw value
\* (token_hash = hashToken(raw)), and no token column holds a raw value.
C17_StoredTokensHashed ==
  /\ \A i \in DOMAIN emailVerifications :
       emailVerifications[i].token_hash = hashToken(emailVerifications[i].token_hash[2])
  /\ \A i \in DOMAIN passwordResets :
       passwordResets[i].token_hash = hashToken(passwordResets[i].token_hash[2])
  /\ \A i \in DOMAIN refreshTokens :
       refreshTokens[i].token_hash = hashToken(refreshTokens[i].token_hash[2])
  /\ \A i \in DOMAIN userSessions :
       userSessions[i].session_token \notin RawTokens

\* C18: a login with an e-mail that has no account ends with
\* InvalidCredentialsError and writes nothing; a login with the e-mail of an
\* account that is not locked and a password that is not the account's
\* goes to handleFailedLogin and ends with the same InvalidCredentialsError.
C18_UnknownEmailLikeWrongPassword ==
  [][ \A p \in Procs :
        LET u == procs'[p].uid
        IN  /\ (Starts(p, "login") /\ u = 0)
               => (EndsWith(p, "InvalidCredentialsError") /\ store' = store)
            /\ ( /\ Starts(p, "login")
                 /\ u # 0
                 /\ ~Locked(u)
                 /\ users[u].password_hash # bcryptHash(procs'[p].password) )
               => procs'[p].pc = "fail_find"
            /\ (procs[p].pc = "fail_find" /\ procs'[p] # procs[p])
               => procs'[p].pc = "fail_update"
            /\ (procs[p].pc = "fail_update" /\ procs'[p] # procs[p])
               => EndsWith(p, "InvalidCredentialsError")
    ]_vars

\* C18 witness: a login with an unknown e-mail and a login with a known
\* e-mail and a wrong password have ended with the same result
C18_Witness ==
  \E p, q \in Procs :
    /\ procs[p].pc = "idle" /\ procs[p].op = "login" /\ procs[p].uid = 0
    /\ procs[q].pc = "idle" /\ procs[q].op = "login" /\ procs[q].uid # 0
    /\ procs[q].compared
    /\ users[procs[q].uid].password_hash # bcryptHash(procs[q].password)
    /\ procs[p].result = "InvalidCredentialsError"
    /\ procs[p].result = procs[q].result

\* C19: on a store without an account for e, every login for e ends with
\* InvalidCredentialsError and every forgotPassword for e with success, so
\* the outcomes of a sequence of calls are the same on the store with the
\* account exactly when every login for e with a password that is not the
\* account's ends with InvalidCredentialsError and every forgotPassword
\* with success there too.
C19_OutcomesHideExistence ==
  \A p \in Procs :
    /\ ( /\ procs[p].pc = "idle"
         /\ procs[p].op = "login"
         /\ procs[p].uid # 0
         /\ users[procs[p].uid].password_hash # bcryptHash(procs[p].password) )
       => procs[p].result = "InvalidCredentialsError"
    /\ (procs[p].pc = "idle" /\ procs[p].op = "forgotPassword")
       => procs[p].result = "success"

\* C20: a forgotPassword call for an e-mail without an account ends with
\* success and changes nothing in the store; a call for an e-mail with an
\* account ends with the same success after appending one PasswordReset
\* row for that account, and changes nothing else in the store.
C20_ForgotPasswordGeneric ==
  [][ \A p \in Procs :
        /\ ( /\ Starts(p, "forgotPassword")
             /\ \A i \in DOMAIN users : users[i].email # procs'[p].email )
           => (EndsWith(p, "success") /\ store' = store)
        /\ ( /\ Starts(p, "forgotPassword")
             /\ \E i \in DOMAIN users : users[i].email = procs'[p].email )
           => /\ procs'[p].pc = "fp_create"
              /\ users[procs'[p].uid].email = procs'[p].email
              /\ store' = store
        /\ (procs[p].pc = "fp_create" /\ procs'[p] # procs[p])
           => /\ EndsWith(p, "success")
              /\ Len(passwordResets') = Len(passwordResets) + 1
              /\ SubSeq(passwordResets', 1, Len(passwordResets)) = passwordResets
              /\ passwordResets'[Len(passwordResets')].user_id = procs[p].uid
              /\ ~passwordResets'[Len(passwordResets')].used
              /\ UNCHANGED <<users, emailVerifications, refreshTokens, userSessions>>
    ]_vars

\* C20 witness: a forgotPassword for an e-mail without an account and one
\* for an e-mail with an account have both returned success, and the only
\* PasswordReset rows are rows of existing accounts
C20_Witness ==
  \E p, q \in Procs :
    /\ Ended(p, "forgotPassword", "success")
    /\ Ended(q, "forgotPassword", "success")
    /\ \A i \in DOMAIN users : users[i].email # procs[p].email
    /\ \E i \in DOMAIN users : users[i].email = procs[q].email
    /\ Len(passwordResets) = 1
    /\ passwordResets[1].user_id = procs[q].uid

\* C21: a login goes on to its writes (and so to the token pair and the
\* session) exactly when the account exists, is not Locked, the password
\* matches and the status is ACTIVE; RefreshToken and UserSession rows are
\* created only by a login that read such an account; a login with the
\* right password on an account that is not Locked ends with
\* EmailNotVerifiedError when the status is PENDING_VERIFICATION and with
\* AccountNotActiveError when it is INACTIVE or SUSPENDED, and writes nothing.
C21_LoginIssuesOnlyWhenEligible ==
  [][ \A p \in Procs :
        LET u == procs'[p].uid
            matches == users[u].password_hash = bcryptHash(procs'[p].password)
        IN  /\ Starts(p, "login")
               => ( procs'[p].pc = "login_reset"
                    <=> (u # 0 /\ ~Locked(u) /\ matches /\ users[u].status = "ACTIVE") )
            /\ (Starts(p, "login") /\ u # 0 /\ ~Locked(u) /\ matches
                  /\ users[u].status = "PENDING_VERIFICATION")
               => (EndsWith(p, "EmailNotVerifiedError") /\ store' = store)
            /\ (Starts(p, "login") /\ u # 0 /\ ~Locked(u) /\ matches
                  /\ users[u].status \in {"INACTIVE", "SUSPENDED"})
               => (EndsWith(p, "AccountNotActiveError") /\ store' = store)
            /\ (procs'[p] # procs[p] /\ (refreshTokens' # refreshTokens \/ userSessions' # userSessions))
               => /\ procs[p].pc \in {"login_tokens", "login_session"}
                  /\ procs[p].user.status = "ACTIVE"
                  /\ procs[p].user.password_hash = bcryptHash(procs[p].password)
    ]_vars

\* C21 witness: a login with the right password on an unlocked INACTIVE or
\* SUSPENDED account was refused with AccountNotActiveError, and the store
\* holds no RefreshToken and no UserSession row
C21_Witness ==
  \E p \in Procs :
    /\ Ended(p, "login", "AccountNotActiveError")
    /\ users[procs[p].uid].status \in {"INACTIVE", "SUSPENDED"}
    /\ users[procs[p].uid].password_hash = bcryptHash(procs[p].password)
    /\ users[procs[p].uid].failed_login_attempts > 0
    /\ refreshTokens = <<>> /\ userSessions = <<>>

\* C22: in every step, a verification record becomes verified exactly when
\* the account of its e-mail is set to ACTIVE with email_verified = true in
\* the same step (both or neither), the account was PENDING_VERIFICATION
\* before, and no step changes the status of an INACTIVE or SUSPENDED
\* account.
C22_VerifyActivatesPendingOnly ==
  [][ /\ \A i \in DOMAIN emailVerifications :
           LET u == UserByEmail(emailVerifications[i].email)
           IN  (~emailVerifications[i].verified /\ emailVerifications'[i].verified)
                 => /\ u # 0
                    /\ users[u].status = "PENDING_VERIFICATION"
                    /\ users'[u].status = "ACTIVE"
                    /\ users'[u].email_verified
      /\ \A u \in DOMAIN users :
           (users'[u].status # users[u].status \/ users'[u].email_verified # users[u].email_verified)
             => \E i \in DOMAIN emailVerifications :
                  /\ emailVerifications[i].email = users[u].email
                  /\ ~emailVerifications[i].verified /\ emailVerifications'[i].verified
      /\ \A u \in DOMAIN users :
           users[u].status \in {"INACTIVE", "SUSPENDED"} => users'[u].status = users[u].status
    ]_vars

\* C23: a login with the right password on an ACTIVE account whose
\* locked_until is set and not in the future (now >= locked_until) is not
\* rejected as locked: it passes the checks, and when it ends it ends with
\* success.
C23_ExpiredLockLoginSucceeds ==
  [][ \A p \in Procs :
        LET u == procs'[p].uid
        IN  /\ ( /\ Starts(p, "login")
                 /\ u # 0
                 /\ users[u].status = "ACTIVE"
                 /\ users[u].password_hash = bcryptHash(procs'[p].password)
                 /\ users[u].locked_until # NULL
                 /\ now >= users[u].locked_until )
               => procs'[p].pc = "login_reset"
            /\ ( /\ procs[p].pc \in {"login_reset", "login_tokens", "login_session"}
                 /\ procs[p].user.locked_until # NULL
                 /\ procs'[p].pc = "idle" )
               => procs'[p].result = "success"
    ]_vars

\* C24: under any interleaving of logins, a step locks an account (sets its
\* locked_until) only if at least MaxFailedLoginAttempts logins with a
\* wrong password have ended for it since its last successful login; a
\* counter read before a successful login reset it does not lock the account.
C24_LockOnlyAfterMaxFailures ==
  [][ \A u \in 1..Len(users) :
        ( /\ Len(users') = Len(users)
          /\ users'[u].locked_until # NULL
          /\ users'[u].locked_until # users[u].locked_until )
        => failedStreak'[u] >= MaxFailedLoginAttempts
    ]_vars

\* C25: a refreshToken request whose token passed the checks (signed, stored,
\* not revoked, not expired) and that then fails in the database, at the
\* insert of the new row or at the revoke of the old one, ends with
\* InfrastructureError, not with InvalidTokenError.
C25_StoreFailureNotInvalidToken ==
  [][ \A p \in Procs :
        ( /\ procs[p].pc \in {"rt_create", "rt_revoke"}
          /\ procs'[p].pc = "idle"
          /\ procs'[p].result # "success" )
        => procs'[p].result = "InfrastructureError"
    ]_vars

\* C26: a resetPassword call whose token is not stored, is used or is expired
\* ends with InvalidOrExpiredTokenError at once and changes no row of the
\* store; and a resetPassword call that has gone past that check (and may
\* have written) never ends with InvalidOrExpiredTokenError.
C26_RejectedResetChangesNothing ==
  [][ \A p \in Procs :
        LET row == RowByHash(passwordResets, hashToken(procs'[p].tok))
        IN  /\ ( /\ Starts(p, "resetPassword")
                 /\ \/ row = 0
                    \/ passwordResets[row].used
                    \/ passwordResets[row].expires_at < now )
               => /\ EndsWith(p, "InvalidOrExpiredTokenError")
                  /\ store' = store
            /\ ( /\ procs[p].op = "resetPassword"
                 /\ procs[p].pc # "idle"
                 /\ procs'[p].pc = "idle" )
               => procs'[p].result # "InvalidOrExpiredTokenError"
    ]_vars

\* C26 witness: a resetPassword call that presented a mailed reset token,
\* stored and not used but past its expiry, was rejected, and the password
\* is still the one of the registration
C26_Witness ==
  \E p \in Procs :
    LET row == RowByHash(passwordResets, hashToken(procs[p].tok))
    IN  /\ Ended(p, "resetPassword", "InvalidOrExpiredTokenError")
        /\ row # 0
        /\ ~passwordResets[row].used
        /\ passwordResets[row].expires_at < now
        /\ users[passwordResets[row].user_id].password_hash = bcryptHash("Passw0rd!")

\* C27: when logins come one after the other, a login that fails on the
\* password of an account that is not locked computes the counter plus one
\* and, exactly when that value is at least MaxFailedLoginAttempts, a lock
\* that ends LockDuration after the present second, which is in the future;
\* its update then stores the counter one higher than it was and that lock,
\* and leaves locked_until as it was when no lock was computed.
C27_FailedLoginCountsAndLocks ==
  [][ \A p \in Procs :
        LET u == procs[p].uid
        IN  /\ (procs[p].pc = "fail_find" /\ procs'[p].pc # "fail_find")
               => LET n == users[u].failed_login_attempts + 1
                  IN  /\ procs'[p].pc = "fail_update"
                      /\ procs'[p].attempts = n
                      /\ n >= MaxFailedLoginAttempts
                           => (procs'[p].at = now + LockDuration /\ procs'[p].at > now)
                      /\ n < MaxFailedLoginAttempts => procs'[p].at = NULL
            /\ (procs[p].pc = "fail_update" /\ procs'[p].pc # "fail_update")
               => /\ EndsWith(p, "InvalidCredentialsError")
                  /\ users'[u].failed_login_attempts = users[u].failed_login_attempts + 1
                  /\ users'[u].failed_login_attempts >= MaxFailedLoginAttempts
                       => (users'[u].locked_until = procs[p].at /\ procs[p].at # NULL)
                  /\ users'[u].failed_login_attempts < MaxFailedLoginAttempts
                       => users'[u].locked_until = users[u].locked_until
    ]_vars

\* C27 witness: a login with a wrong password has just ended, the counter
\* stands at MaxFailedLoginAttempts and the account is locked for
\* LockDuration from the present second
C27_Witness ==
  \E p \in Procs :
    /\ Ended(p, "login", "InvalidCredentialsError")
    /\ procs[p].uid # 0
    /\ users[procs[p].uid].failed_login_attempts = MaxFailedLoginAttempts
    /\ users[procs[p].uid].locked_until = now + LockDuration

\* C28: when k logins with a wrong password have run concurrently on an
\* unlocked account whose counter was 0 (each started while another was in
\* flight) and all have ended, failed_login_attempts is at most k and at
\* least k - 1.
C28_BurstUndercountsByAtMostOne ==
  (\A p \in Procs : Ready(p))
    => /\ users[1].failed_login_attempts <= nreq
       /\ users[1].failed_login_attempts >= nreq - 1

\* C29: once a logout or a resetPassword of an account has ended with
\* success, and no login has followed, the account has no refresh token
\* that is neither revoked nor expired, whatever refreshToken calls were in
\* flight meanwhile.
C29_NoValidTokenAfterRevocation ==
  \A p \in Procs :
    (Ended(p, "logout", "success") \/ Ended(p, "resetPassword", "success"))
      => \A r \in 1..Len(refreshTokens) :
           refreshTokens[r].user_id = procs[p].uid
             => (refreshTokens[r].revoked \/ refreshTokens[r].expires_at < now)

\* C30: with the requests run one after the other, a refreshToken call that
\* presents a signed, stored, non-revoked, non-expired token succeeds however
\* soon after the issue of that token it comes: the new refresh token is not
\* the old one and its hash is in no stored row, its row is inserted, the
\* old row is revoked and the call ends with success; and the insert of the
\* refresh token of a login never fails, another login or rotation of the
\* same second notwithstanding.
C30_RotationAndLoginNeverCollide ==
  [][ \A p \in Procs :
        LET row == RowByHash(refreshTokens, hashToken(procs'[p].jwt))
        IN  /\ ( /\ Starts(p, "refreshToken")
                 /\ jwtVerify(procs'[p].jwt, now)
                 /\ row # 0
                 /\ ~refreshTokens[row].revoked
                 /\ now <= refreshTokens[row].expires_at )
               => /\ procs'[p].pc = "rt_create"
                  /\ procs'[p].out # procs'[p].jwt
                  /\ RowByHash(refreshTokens, hashToken(procs'[p].out)) = 0
            /\ (procs[p].pc = "rt_create" /\ procs'[p].pc # "rt_create")
               => /\ procs'[p].pc = "rt_revoke"
                  /\ Len(refreshTokens') = Len(refreshTokens) + 1
            /\ (procs[p].pc = "rt_revoke" /\ procs'[p].pc # "rt_revoke")
               => /\ EndsWith(p, "success")
                  /\ refreshTokens'[procs[p].row].revoked
            /\ (procs[p].pc = "login_tokens" /\ procs'[p].pc # "login_tokens")
               => /\ procs'[p].pc = "login_session"
                  /\ Len(refreshTokens') = Len(refreshTokens) + 1
    ]_vars

\* C31: when no request is in flight (every register call has ended, with
\* its result or with a failure between two of its writes), every account
\* in status PENDING_VERIFICATION has an e-mail verification record for its
\* e-mail address.
C31_PendingAccountHasVerification ==
  (\A q \in Procs : Ready(q))
    => \A u \in 1..Len(users) :
         users[u].status = "PENDING_VERIFICATION"
           => \E v \in 1..Len(emailVerifications) :
                emailVerifications[v].email = users[u].email

\* C32: a login with a wrong password on an account that is not Locked and
\* whose status is PENDING_VERIFICATION, INACTIVE or SUSPENDED takes the
\* failure path before its status is looked at: it ends with
\* InvalidCredentialsError, never with EmailNotVerifiedError or
\* AccountNotActiveError, and its update leaves failed_login_attempts one
\* higher.
C32_PasswordCheckedBeforeStatus ==
  [][ \A p \in Procs :
        LET u == procs'[p].uid
        IN  /\ ( /\ Starts(p, "login")
                 /\ u # 0
                 /\ ~Locked(u)
                 /\ users[u].password_hash # bcryptHash(procs'[p].password)
                 /\ users[u].status # "ACTIVE" )
               => procs'[p].pc = "fail_find"
            /\ ( /\ procs[p].pc \in {"fail_find", "fail_update"}
                 /\ procs'[p].pc = "idle" )
               => /\ procs'[p].result = "InvalidCredentialsError"
                  /\ users'[procs[p].uid].failed_login_attempts
                       = users[procs[p].uid].failed_login_attempts + 1
    ]_vars

\* C32 witness: wrong-password logins have locked an account that is not
\* ACTIVE
C32_Witness ==
  \E p \in Procs :
    /\ Ended(p, "login", "InvalidCredentialsError")
    /\ procs[p].uid # 0
    /\ users[procs[p].uid].status # "ACTIVE"
    /\ users[procs[p].uid].failed_login_attempts = MaxFailedLoginAttempts
    /\ Locked(procs[p].uid)

\* C33: forgotPassword computes the expiry of the token it issues as the
\* present second plus ResetTokenTtl (one hour) and stores the token with
\* that expiry; a resetPassword call that presents a stored, unused token is
\* accepted exactly when now <= expires_at, and is otherwise rejected with
\* InvalidOrExpiredTokenError.
C33_ResetTokenLivesOneHour ==
  [][ \A p \in Procs :
        LET row == RowByHash(passwordResets, hashToken(procs'[p].tok))
        IN  /\ (Starts(p, "forgotPassword") /\ procs'[p].pc = "fp_create")
               => procs'[p].at = now + ResetTokenTtl
            /\ (procs[p].pc = "fp_create" /\ procs'[p].pc # "fp_create")
               => /\ Len(passwordResets') = Len(passwordResets) + 1
                  /\ passwordResets'[Len(passwordResets')].expires_at = procs[p].at
                  /\ ~passwordResets'[Len(passwordResets')].used
            /\ (Starts(p, "resetPassword") /\ row # 0 /\ ~passwordResets[row].used)
               => /\ now <= passwordResets[row].expires_at => procs'[p].pc = "rp_tx"
                  /\ now > passwordResets[row].expires_at
                       => EndsWith(p, "InvalidOrExpiredTokenError")
    ]_vars

\* C33 witness: a resetPassword call that presented an unused token at the
\* very second of its expiry, one hour after forgotPassword issued it, has
\* been accepted
C33_Witness ==
  \E p \in Procs :
    LET row == RowByHash(passwordResets, hashToken(procs[p].tok))
    IN  /\ procs[p].op = "resetPassword"
        /\ procs[p].pc = "rp_tx"
        /\ row # 0
        /\ ~passwordResets[row].used
        /\ passwordResets[row].expires_at = now
        /\ now = 1 + ResetTokenTtl

\* C34: with the logins of one caller, the passing of time changes neither
\* failed_login_attempts nor locked_until, and an account whose locked_until
\* is set has a counter of at least MaxFailedLoginAttempts; so a login with a
\* wrong password that finds the lock expired takes the failure path,
\* computes a counter above the threshold and a lock LockDuration after the
\* present second, and its update stores that lock, later than the expired
\* one: one failure locks the account again.
C34_OneFailureRelocksAfterExpiry ==
  [][ /\ \A u \in 1..Len(users) :
           /\ users[u].locked_until # NULL
                => users[u].failed_login_attempts >= MaxFailedLoginAttempts
           /\ now' # now => users'[u] = users[u]
      /\ \A p \in Procs :
           LET u == procs'[p].uid
           IN  /\ ( /\ Starts(p, "login")
                    /\ u # 0
                    /\ users[u].locked_until # NULL
                    /\ users[u].locked_until <= now
                    /\ users[u].password_hash # bcryptHash(procs'[p].password) )
                  => procs'[p].pc = "fail_find"
               /\ ( /\ procs[p].pc = "fail_find"
                    /\ procs[p].user.locked_until # NULL
                    /\ procs'[p].pc # "fail_find" )
                  => /\ procs'[p].attempts > MaxFailedLoginAttempts
                     /\ procs'[p].at = now + LockDuration
               /\ ( /\ procs[p].pc = "fail_update"
                    /\ procs[p].user.locked_until # NULL
                    /\ procs'[p].pc # "fail_update" )
                  => /\ users'[procs[p].uid].locked_until = procs[p].at
                     /\ users'[procs[p].uid].locked_until > users[procs[p].uid].locked_until
    ]_vars

\* C34 witness: after the lock set by the fifth failure had expired, a sixth
\* login with a wrong password has ended and the account is locked again
C34_Witness ==
  \E p \in Procs :
    /\ Ended(p, "login", "InvalidCredentialsError")
    /\ procs[p].uid # 0
    /\ procs[p].user.locked_until # NULL
    /\ procs[p].user.failed_login_attempts = MaxFailedLoginAttempts
    /\ users[procs[p].uid].failed_login_attempts = MaxFailedLoginAttempts + 1
    /\ Locked(procs[p].uid)

\* C35: the transaction of a resetPassword call changes, in the whole store,
\* only the password_hash of its account and the used flag of its token; its
\* last step changes only revoked flags of refresh tokens of its account and
\* ends with success; status, failed_login_attempts and locked_until of the
\* account stay as they were, and an account that was Locked is Locked after
\* each of the two steps.
C35_ResetLeavesLockoutAlone ==
  [][ \A p \in Procs :
        LET u == procs[p].uid
        IN  /\ (procs[p].pc = "rp_tx" /\ procs'[p].pc # "rp_tx")
               => /\ users' = [users EXCEPT ![u] =
                       [@ EXCEPT !.password_hash = bcryptHash(procs[p].password)]]
                  /\ passwordResets' = [passwordResets EXCEPT ![procs[p].row] =
                       [@ EXCEPT !.used = TRUE]]
                  /\ UNCHANGED <<emailVerifications, refreshTokens, userSessions>>
                  /\ Locked(u) => Locked(u)'
            /\ (procs[p].pc = "rp_revoke" /\ procs'[p].pc # "rp_revoke")
               => /\ EndsWith(p, "success")
                  /\ UNCHANGED <<users, emailVerifications, passwordResets, userSessions>>
                  /\ Len(refreshTokens') = Len(refreshTokens)
                  /\ \A i \in 1..Len(refreshTokens) :
                       \/ refreshTokens'[i] = refreshTokens[i]
                       \/ /\ refreshTokens[i].user_id = u
                          /\ refreshTokens'[i] = [refreshTokens[i] EXCEPT !.revoked = TRUE]
                  /\ Locked(u) => Locked(u)'
    ]_vars

\* C35 witness: a resetPassword call has ended with success on a Locked
\* account: the password is the new one, the token is used, the refresh
\* token of the account is revoked, and the account is still Locked with its
\* counter at the threshold
C35_Witness ==
  \E p \in Procs :
    LET row == RowByHash(passwordResets, hashToken(procs[p].tok))
    IN  /\ Ended(p, "resetPassword", "success")
        /\ row # 0
        /\ passwordResets[row].used
        /\ users[procs[p].uid].password_hash = bcryptHash(procs[p].password)
        /\ users[procs[p].uid].status = "ACTIVE"
        /\ users[procs[p].uid].failed_login_attempts = MaxFailedLoginAttempts
        /\ Locked(procs[p].uid)
        /\ \A i \in 1..Len(refreshTokens) : refreshTokens[i].revoked

\* C36: every RefreshToken row and every UserSession row belongs to an
\* account whose email_verified is true, and an account is ACTIVE only if
\* its email_verified is true.
C36_TokensOnlyForVerifiedAccounts ==
  /\ \A i \in 1..Len(refreshTokens) :
       /\ refreshTokens[i].user_id \in 1..Len(users)
       /\ users[refreshTokens[i].user_id].email_verified
  /\ \A i \in 1..Len(userSessions) :
       /\ userSessions[i].user_id \in 1..Len(users)
       /\ users[userSessions[i].user_id].email_verified
  /\ \A u \in 1..Len(users) : users[u].status = "ACTIVE" => users[u].email_verified

\* C36 witness: a rotation has ended with success, so the store holds the
\* row of a login, the row of a rotation and a session
C36_Witness ==
  /\ \E p \in Procs : Ended(p, "refreshToken", "success")
  /\ Len(refreshTokens) >= 2
  /\ Len(userSessions) >= 1

C38_ResetTokensIndependent ==
  [][ \A p \in Procs :
        LET row == RowByHash(passwordResets, hashToken(procs'[p].tok))
        IN  /\ (procs[p].pc = "fp_create" /\ procs'[p].pc # "fp_create")
               => /\ Len(passwordResets') = Len(passwordResets) + 1
                  /\ \A i \in 1..Len(passwordResets) : passwordResets'[i] = passwordResets[i]
            /\ (procs[p].pc = "rp_tx" /\ procs'[p].pc # "rp_tx")
               => /\ passwordResets'[procs[p].row].used
                  /\ \A i \in 1..Len(passwordResets) :
                       i # procs[p].row => passwordResets'[i] = passwordResets[i]
            /\ ( /\ Starts(p, "resetPassword")
                 /\ row # 0
                 /\ ~passwordResets[row].used
                 /\ now <= passwordResets[row].expires_at
                 /\ \E i \in 1..Len(passwordResets) :
                      /\ i # row
                      /\ passwordResets[i].user_id = passwordResets[row].user_id
                      /\ passwordResets[i].used )
               => procs'[p].pc = "rp_tx"
    ]_vars

\* C38 witness: two reset tokens of one account have each been redeemed by
\* a successful resetPassword call
C38_Witness ==
  \E p, q \in Procs :
    LET rp == RowByHash(passwordResets, hashToken(procs[p].tok))
        rq == RowByHash(passwordResets, hashToken(procs[q].tok))
    IN  /\ Ended(p, "resetPassword", "success")
        /\ Ended(q, "resetPassword", "success")
        /\ rp # 0 /\ rq # 0 /\ rp # rq
        /\ passwordResets[rp].user_id = passwordResets[rq].user_id
        /\ passwordResets[rp].used /\ passwordResets[rq].used
        /\ Len(passwordResets) = 2

\* the publish calls of event type t, in call order
RECURSIVE CallsOfType(_, _)
CallsOfType(t, n) ==
  IF n = 0 THEN <<>>
  ELSE IF published[n].type = t
       THEN Append(CallsOfType(t, n - 1), n)
       ELSE CallsOfType(t, n - 1)

\* C39: a publish call of event type t invokes, once for that call, every
\* handler that was subscribed to t before it; and when an event store is
\* configured and no publish call is suspended, the stream named t holds
\* exactly one event for each publish call of type t, in call order.
C39_SubscribersInvokedAndEventsStored ==
  [][ /\ Len(published') = Len(published) + 1
           => LET n == Len(published')
                  t == published'[n].type
              IN  \A h \in Handlers :
                    (\E i \in 1..Len(subscriberListeners[t]) : subscriberListeners[t][i] = h)
                      => invoked'[h] = Append(invoked[h], n)
      /\ (eventStoreConfigured /\ pending = <<>>)
           => \A t \in EventTypes :
                [i \in 1..Len(events[t]) |-> events[t][i].call]
                  = CallsOfType(t, Len(published))
    ]_vars

====
